---- MODULE Spec2Model ----
(***************************************************************************)
(* Model of the reconciliation engine of Smart-Reconciliation-Visualizer   *)
(* (src/src/lib/reconciliation.ts), of the ingestion of CSV rows           *)
(* (FileUpload, parseNumber) and of the page that holds the datasets, the  *)
(* results and their filtered view (page.tsx, FilterPanel).                *)
(*                                                                         *)
(* Strings are sequences of one-character strings, so that trimming, case  *)
(* folding, whitespace removal and the two date patterns are computed      *)
(* character by character as the code does.  Amounts are integers in minor *)
(* units (hundredths of a currency unit); the tolerance of one currency    *)
(* unit is therefore 100.                                                  *)
(***************************************************************************)
EXTENDS Integers, Sequences, FiniteSets, TLC

VARIABLES purchaseRecords, salesRecords, purchaseInfo, salesInfo,
          results, filteredResults, summary, activeTab, pc

vars == <<purchaseRecords, salesRecords, purchaseInfo, salesInfo,
          results, filteredResults, summary, activeTab, pc>>

\* the state of the page that the engine's caller does not touch
display == <<purchaseInfo, salesInfo, filteredResults, activeTab>>

(***************************************************************************)
(* Characters and the string primitives of the JavaScript runtime          *)
(***************************************************************************)
\* the characters String.prototype.trim and the pattern \s treat as blank
Whitespace == {" ", "\t", "\n"}

\* the characters the pattern \d accepts
Digits == {"0", "1", "2", "3", "4", "5", "6", "7", "8", "9"}

LowerLetters == <<"a", "b", "c", "d", "e", "f", "g", "h", "i", "j", "k", "l", "m",
                  "n", "o", "p", "q", "r", "s", "t", "u", "v", "w", "x", "y", "z">>

UpperLetters == <<"A", "B", "C", "D", "E", "F", "G", "H", "I", "J", "K", "L", "M",
                  "N", "O", "P", "Q", "R", "S", "T", "U", "V", "W", "X", "Y", "Z">>

\* the JavaScript null / undefined value
Null == [null |-> TRUE]

\* the upper-case form of each lower-case letter, and the reverse
UpperOf ==
    [c \in {LowerLetters[i] : i \in 1..26} |->
        UpperLetters[CHOOSE i \in 1..26 : LowerLetters[i] = c]]

LowerOf ==
    [c \in {UpperLetters[i] : i \in 1..26} |->
        LowerLetters[CHOOSE i \in 1..26 : UpperLetters[i] = c]]

ToUpperChar(c) == IF c \in DOMAIN UpperOf THEN UpperOf[c] ELSE c

ToLowerChar(c) == IF c \in DOMAIN LowerOf THEN LowerOf[c] ELSE c

\* String.prototype.toUpperCase
toUpperCase(s) == [i \in 1..Len(s) |-> ToUpperChar(s[i])]

\* String.prototype.toLowerCase
toLowerCase(s) == [i \in 1..Len(s) |-> ToLowerChar(s[i])]

RECURSIVE TrimStart(_)
TrimStart(s) ==
    IF s # <<>> /\ Head(s) \in Whitespace THEN TrimStart(Tail(s)) ELSE s

RECURSIVE TrimEnd(_)
TrimEnd(s) ==
    IF s # <<>> /\ s[Len(s)] \in Whitespace
    THEN TrimEnd(SubSeq(s, 1, Len(s) - 1))
    ELSE s

\* String.prototype.trim
trim(s) == TrimEnd(TrimStart(s))

\* s.replace(/\s+/g, "")
RemoveWhitespace(s) == SelectSeq(s, LAMBDA c : c \notin Whitespace)

\* a.includes(b)
includes(a, b) ==
    \E i \in 0..(Len(a) - Len(b)) : SubSeq(a, i + 1, i + Len(b)) = b

(***************************************************************************)
(* generateMatchKey                                                        *)
(***************************************************************************)
\* dateStr.match(/^(\d{4})-(\d{2})-(\d{2})$/)
isoMatch(dateStr) ==
    /\ Len(dateStr) = 10
    /\ \A i \in {1, 2, 3, 4, 6, 7, 9, 10} : dateStr[i] \in Digits
    /\ dateStr[5] = "-"
    /\ dateStr[8] = "-"

\* dateStr.match(/^(\d{2})[-/](\d{2})[-/](\d{4})$/)
indianMatch(dateStr) ==
    /\ Len(dateStr) = 10
    /\ \A i \in {1, 2, 4, 5, 7, 8, 9, 10} : dateStr[i] \in Digits
    /\ dateStr[3] \in {"-", "/"}
    /\ dateStr[6] \in {"-", "/"}

\* variant: the invoice number is not upper-cased
normalizedInvoiceNo_NoUpperCase(record) ==
    RemoveWhitespace(trim(record.invoiceNo))

normalizedInvoiceNo(record) ==
    RemoveWhitespace(toUpperCase(trim(record.invoiceNo)))

\* variant: the DD-MM-YYYY pattern is read month first
normalizedDate_MonthFirst(record) ==
    IF record.invoiceDate = <<>> THEN <<>>
    ELSE LET dateStr == trim(record.invoiceDate)
             month   == SubSeq(dateStr, 1, 2)
             day     == SubSeq(dateStr, 4, 5)
             year    == SubSeq(dateStr, 7, 10)
         IN  IF isoMatch(dateStr) THEN dateStr
             ELSE IF indianMatch(dateStr)
                  THEN year \o <<"-">> \o month \o <<"-">> \o day
                  ELSE dateStr

normalizedDate(record) ==
    IF record.invoiceDate = <<>> THEN <<>>
    ELSE LET dateStr == trim(record.invoiceDate)
             day     == SubSeq(dateStr, 1, 2)
             month   == SubSeq(dateStr, 4, 5)
             year    == SubSeq(dateStr, 7, 10)
         IN  IF isoMatch(dateStr) THEN dateStr
             ELSE IF indianMatch(dateStr)
                  THEN year \o <<"-">> \o month \o <<"-">> \o day
                  ELSE dateStr

\* a component with every separator character preceded by a backslash
RECURSIVE EscapeSeparator(_)
EscapeSeparator(s) ==
    IF s = <<>> THEN <<>>
    ELSE (IF Head(s) \in {"|", "\\"} THEN <<"\\", Head(s)>> ELSE <<Head(s)>>)
             \o EscapeSeparator(Tail(s))

\* variant: the separator is escaped inside the two components
generateMatchKey_Escaped(record) ==
    EscapeSeparator(normalizedInvoiceNo(record)) \o <<"|">>
        \o EscapeSeparator(normalizedDate(record))

generateMatchKey(record) ==
    normalizedInvoiceNo(record) \o <<"|">> \o normalizedDate(record)

(***************************************************************************)
(* compareAmounts and findMismatches                                       *)
(***************************************************************************)
\* one currency unit, in minor units
AMOUNT_TOLERANCE == 100

Abs(x) == IF x < 0 THEN -x ELSE x

\* variant: the tolerance itself counts as a difference
compareAmounts_Strict(amount1, amount2, tolerance) ==
    [isEqual    |-> Abs(amount1 - amount2) < tolerance,
     difference |-> amount1 - amount2]

\* variant: only an excess of the first amount counts as a difference
compareAmounts_OneSided(amount1, amount2, tolerance) ==
    [isEqual    |-> amount1 - amount2 <= tolerance,
     difference |-> amount1 - amount2]

compareAmounts(amount1, amount2, tolerance) ==
    [isEqual    |-> Abs(amount1 - amount2) <= tolerance,
     difference |-> amount1 - amount2]

\* variant: an empty GSTIN on one side is flagged like any other difference
GstinReason_EmptyFlagged(purchaseRecord, salesRecord) ==
    LET purchaseGstin == trim(toUpperCase(purchaseRecord.gstin))
        salesGstin    == trim(toUpperCase(salesRecord.gstin))
    IN  IF purchaseGstin # salesGstin
        THEN <<[field         |-> "GSTIN",
                purchaseValue |-> purchaseRecord.gstin,
                salesValue    |-> salesRecord.gstin]>>
        ELSE <<>>

\* the GSTIN block of findMismatches
GstinReason(purchaseRecord, salesRecord) ==
    LET purchaseGstin == trim(toUpperCase(purchaseRecord.gstin))
        salesGstin    == trim(toUpperCase(salesRecord.gstin))
    IN  IF purchaseGstin # <<>> /\ salesGstin # <<>> /\ purchaseGstin # salesGstin
        THEN <<[field         |-> "GSTIN",
                purchaseValue |-> purchaseRecord.gstin,
                salesValue    |-> salesRecord.gstin]>>
        ELSE <<>>

\* variant: containment of one name in the other is not looked at
PartyNameReason_NoContainment(purchaseRecord, salesRecord) ==
    LET purchaseName == trim(toLowerCase(purchaseRecord.partyName))
        salesName    == trim(toLowerCase(salesRecord.partyName))
    IN  IF purchaseName # <<>> /\ salesName # <<>> /\ purchaseName # salesName
        THEN <<[field         |-> "Party Name",
                purchaseValue |-> purchaseRecord.partyName,
                salesValue    |-> salesRecord.partyName]>>
        ELSE <<>>

\* the Party Name block of findMismatches
PartyNameReason(purchaseRecord, salesRecord) ==
    LET purchaseName == trim(toLowerCase(purchaseRecord.partyName))
        salesName    == trim(toLowerCase(salesRecord.partyName))
    IN  IF /\ purchaseName # <<>> /\ salesName # <<>> /\ purchaseName # salesName
           /\ ~includes(purchaseName, salesName)
           /\ ~includes(salesName, purchaseName)
        THEN <<[field         |-> "Party Name",
                purchaseValue |-> purchaseRecord.partyName,
                salesValue    |-> salesRecord.partyName]>>
        ELSE <<>>

\* one of the five amount blocks of findMismatches
AmountReason(field, purchaseValue, salesValue) ==
    LET comparison == compareAmounts(purchaseValue, salesValue, AMOUNT_TOLERANCE)
    IN  IF ~comparison.isEqual
        THEN <<[field         |-> field,
                purchaseValue |-> purchaseValue,
                salesValue    |-> salesValue,
                difference    |-> comparison.difference]>>
        ELSE <<>>

\* variant: the checks stop at the first field that differs
findMismatches_FirstOnly(purchaseRecord, salesRecord) ==
    LET all ==    GstinReason(purchaseRecord, salesRecord)
               \o PartyNameReason(purchaseRecord, salesRecord)
               \o AmountReason("Taxable Amount", purchaseRecord.taxableAmount, salesRecord.taxableAmount)
               \o AmountReason("IGST", purchaseRecord.igst, salesRecord.igst)
               \o AmountReason("CGST", purchaseRecord.cgst, salesRecord.cgst)
               \o AmountReason("SGST", purchaseRecord.sgst, salesRecord.sgst)
               \o AmountReason("Total Amount", purchaseRecord.totalAmount, salesRecord.totalAmount)
    IN  IF all = <<>> THEN <<>> ELSE <<all[1]>>

findMismatches(purchaseRecord, salesRecord) ==
       GstinReason(purchaseRecord, salesRecord)
    \o PartyNameReason(purchaseRecord, salesRecord)
    \o AmountReason("Taxable Amount", purchaseRecord.taxableAmount, salesRecord.taxableAmount)
    \o AmountReason("IGST", purchaseRecord.igst, salesRecord.igst)
    \o AmountReason("CGST", purchaseRecord.cgst, salesRecord.cgst)
    \o AmountReason("SGST", purchaseRecord.sgst, salesRecord.sgst)
    \o AmountReason("Total Amount", purchaseRecord.totalAmount, salesRecord.totalAmount)

(***************************************************************************)
(* reconcileDatasets                                                       *)
(* A Map is a sequence of [key, value] entries in insertion order.         *)
(***************************************************************************)
MapHas(map, key) == \E i \in 1..Len(map) : map[i].key = key

\* Map.prototype.get: the value, or undefined
MapGet(map, key) ==
    IF MapHas(map, key)
    THEN map[CHOOSE i \in 1..Len(map) : map[i].key = key].value
    ELSE Null

\* variant: an existing key keeps its first value
MapSet_FirstWins(map, key, value) ==
    IF MapHas(map, key) THEN map
    ELSE Append(map, [key |-> key, value |-> value])

\* variant: setting an existing key moves it to the end of the iteration order
MapSet_MoveToEnd(map, key, value) ==
    Append(SelectSeq(map, LAMBDA e : e.key # key), [key |-> key, value |-> value])

\* Map.prototype.set: an existing key keeps its position and gets the new value
MapSet(map, key, value) ==
    IF MapHas(map, key)
    THEN [i \in 1..Len(map) |->
            IF map[i].key = key THEN [key |-> key, value |-> value] ELSE map[i]]
    ELSE Append(map, [key |-> key, value |-> value])

\* for (const record of records) map.set(generateMatchKey(record), record)
RECURSIVE BuildMap(_, _)
BuildMap(records, map) ==
    IF records = <<>> THEN map
    ELSE BuildMap(Tail(records),
                  MapSet(map, generateMatchKey(Head(records)), Head(records)))

\* variant: ids are numbered from 1
ResultId_OneBased(n) == <<"result-", n + 1>>

\* `result-${results.length}`
ResultId(n) == <<"result-", n>>

\* variant: the status literal is misspelt
MissingInSalesResult_BadStatus(key, purchaseRecord, n) ==
    [id              |-> ResultId(n),
     status          |-> "missing_in_sale",
     purchaseRecord  |-> purchaseRecord,
     salesRecord     |-> Null,
     matchKey        |-> key,
     mismatchReasons |-> <<>>,
     totalDifference |-> purchaseRecord.totalAmount]

MissingInSalesResult(key, purchaseRecord, n) ==
    [id              |-> ResultId(n),
     status          |-> "missing_in_sales",
     purchaseRecord  |-> purchaseRecord,
     salesRecord     |-> Null,
     matchKey        |-> key,
     mismatchReasons |-> <<>>,
     totalDifference |-> purchaseRecord.totalAmount]

\* variant: the purchase record is stored with its invoice number normalized
MatchedResult_NormalizedCopy(key, purchaseRecord, salesRecord, n) ==
    [id              |-> ResultId(n),
     status          |-> "matched",
     purchaseRecord  |-> [purchaseRecord EXCEPT
                            !.invoiceNo = normalizedInvoiceNo(purchaseRecord)],
     salesRecord     |-> salesRecord,
     matchKey        |-> key,
     mismatchReasons |-> <<>>,
     totalDifference |-> 0]

MatchedResult(key, purchaseRecord, salesRecord, n) ==
    [id              |-> ResultId(n),
     status          |-> "matched",
     purchaseRecord  |-> purchaseRecord,
     salesRecord     |-> salesRecord,
     matchKey        |-> key,
     mismatchReasons |-> <<>>,
     totalDifference |-> 0]

\* variant: the difference of the first reason is taken, whatever its field
TotalDiffOf_FirstReason(mismatches) ==
    IF Len(mismatches) > 0 THEN mismatches[1].difference ELSE 0

\* mismatches.find((m) => m.field === "Total Amount")?.difference || 0
TotalDiffOf(mismatches) ==
    IF \E i \in 1..Len(mismatches) : mismatches[i].field = "Total Amount"
    THEN LET totalDiff == mismatches[CHOOSE i \in 1..Len(mismatches) :
                               /\ mismatches[i].field = "Total Amount"
                               /\ \A j \in 1..(i - 1) : mismatches[j].field # "Total Amount"]
         IN  IF totalDiff.difference # 0 THEN totalDiff.difference ELSE 0
    ELSE 0

MismatchedResult(key, purchaseRecord, salesRecord, mismatches, n) ==
    [id              |-> ResultId(n),
     status          |-> "mismatched",
     purchaseRecord  |-> purchaseRecord,
     salesRecord     |-> salesRecord,
     matchKey        |-> key,
     mismatchReasons |-> mismatches,
     totalDifference |-> TotalDiffOf(mismatches)]

\* variant: the sales record is stored in the purchase slot
MissingInPurchaseResult_WrongSlot(key, salesRecord, n) ==
    [id              |-> ResultId(n),
     status          |-> "missing_in_purchase",
     purchaseRecord  |-> salesRecord,
     salesRecord     |-> Null,
     matchKey        |-> key,
     mismatchReasons |-> <<>>,
     totalDifference |-> -salesRecord.totalAmount]

\* variant: the sales total is not negated
MissingInPurchaseResult_NotNegated(key, salesRecord, n) ==
    [id              |-> ResultId(n),
     status          |-> "missing_in_purchase",
     purchaseRecord  |-> Null,
     salesRecord     |-> salesRecord,
     matchKey        |-> key,
     mismatchReasons |-> <<>>,
     totalDifference |-> salesRecord.totalAmount]

MissingInPurchaseResult(key, salesRecord, n) ==
    [id              |-> ResultId(n),
     status          |-> "missing_in_purchase",
     purchaseRecord  |-> Null,
     salesRecord     |-> salesRecord,
     matchKey        |-> key,
     mismatchReasons |-> <<>>,
     totalDifference |-> -salesRecord.totalAmount]

\* variant: a pair counts as matched as soon as its totals agree
PurchaseResult_TotalOnly(key, purchaseRecord, salesMap, n) ==
    LET salesRecord == MapGet(salesMap, key)
    IN  IF salesRecord = Null
        THEN MissingInSalesResult(key, purchaseRecord, n)
        ELSE LET mismatches == findMismatches(purchaseRecord, salesRecord)
             IN  IF TotalDiffOf(mismatches) = 0
                 THEN MatchedResult(key, purchaseRecord, salesRecord, n)
                 ELSE MismatchedResult(key, purchaseRecord, salesRecord, mismatches, n)

\* the body of the loop over purchaseMap, for one entry
PurchaseResult(key, purchaseRecord, salesMap, n) ==
    LET salesRecord == MapGet(salesMap, key)
    IN  IF salesRecord = Null
        THEN MissingInSalesResult(key, purchaseRecord, n)
        ELSE LET mismatches == findMismatches(purchaseRecord, salesRecord)
             IN  IF Len(mismatches) = 0
                 THEN MatchedResult(key, purchaseRecord, salesRecord, n)
                 ELSE MismatchedResult(key, purchaseRecord, salesRecord, mismatches, n)

\* for (const [key, purchaseRecord] of purchaseMap) { ... }
RECURSIVE ProcessPurchases(_, _, _)
ProcessPurchases(entries, salesMap, acc) ==
    IF entries = <<>> THEN acc
    ELSE ProcessPurchases(
            Tail(entries), salesMap,
            Append(acc, PurchaseResult(Head(entries).key, Head(entries).value,
                                       salesMap, Len(acc))))

\* variant: the loop over purchaseMap never calls processedKeys.add
ProcessedKeys_NeverAdded(purchaseMap) == {}

\* processedKeys after the loop over purchaseMap
ProcessedKeys(purchaseMap) == {purchaseMap[i].key : i \in 1..Len(purchaseMap)}

\* for (const [key, salesRecord] of salesMap) if (!processedKeys.has(key)) { ... }
RECURSIVE ProcessSales(_, _, _)
ProcessSales(entries, processedKeys, acc) ==
    IF entries = <<>> THEN acc
    ELSE ProcessSales(
            Tail(entries), processedKeys,
            IF Head(entries).key \notin processedKeys
            THEN Append(acc, MissingInPurchaseResult(Head(entries).key,
                                                     Head(entries).value, Len(acc)))
            ELSE acc)

reconcileDatasets(purchase, sales) ==
    LET purchaseMap == BuildMap(purchase, <<>>)
        salesMap    == BuildMap(sales, <<>>)
    IN  ProcessSales(salesMap, ProcessedKeys(purchaseMap),
                     ProcessPurchases(purchaseMap, salesMap, <<>>))

(***************************************************************************)
(* calculateSummary                                                        *)
(***************************************************************************)
\* results.filter((r) => r.status === status).length
CountStatus(rs, status) == Len(SelectSeq(rs, LAMBDA r : r.status = status))

\* JavaScript numbers are IEEE-754 binary64: every arithmetic result is rounded
\* to SignificandBits significant bits, ties to even.  A positive number is
\* [exp, sig]: sig is its significand, most significant bit first with
\* sig[1] = 1, and sig[1] has weight 2^exp.
SignificandBits == 53

\* the bits of a natural number, most significant first, no leading zero
RECURSIVE BitsOf(_)
BitsOf(n) == IF n = 0 THEN <<>> ELSE Append(BitsOf(n \div 2), n % 2)

\* the natural number written by a bit sequence
RECURSIVE NatOf(_)
NatOf(bits) ==
    IF bits = <<>> THEN 0
    ELSE 2 * NatOf(SubSeq(bits, 1, Len(bits) - 1)) + bits[Len(bits)]

\* bits + 1, one bit longer (the first bit is the carry out): the last 0
\* becomes 1 and the 1s after it become 0
Increment(bits) ==
    LET zeros == {i \in 1..Len(bits) : bits[i] = 0}
        last  == CHOOSE i \in zeros : \A j \in zeros : j <= i
    IN  IF zeros = {} THEN <<1>> \o [i \in 1..Len(bits) |-> 0]
        ELSE <<0>> \o [i \in 1..Len(bits) |->
                          IF i < last THEN bits[i] ELSE IF i = last THEN 1 ELSE 0]

\* the binary64 number nearest to the exact value written by bits (bits[1] = 1
\* of weight 2^exp), ties to the even significand
RoundToNearestEven(exp, bits) ==
    IF Len(bits) <= SignificandBits
    THEN [exp |-> exp, sig |-> bits \o [i \in 1..(SignificandBits - Len(bits)) |-> 0]]
    ELSE LET kept   == SubSeq(bits, 1, SignificandBits)
             half   == bits[SignificandBits + 1] = 1
             sticky == \E i \in (SignificandBits + 2)..Len(bits) : bits[i] = 1
             up     == half /\ (sticky \/ kept[SignificandBits] = 1)
             inc    == Increment(kept)
         IN  IF ~up THEN [exp |-> exp, sig |-> kept]
             ELSE IF inc[1] = 1
                  THEN [exp |-> exp + 1, sig |-> SubSeq(inc, 1, SignificandBits)]
                  ELSE [exp |-> exp, sig |-> Tail(inc)]

\* long division and multiplication work on digits of DigitBits bits
DigitBits == 8

\* the n-bit writing of a natural number below 2^n
Binary(v, n) == [j \in 1..n |-> (v \div (2 ^ (n - j))) % 2]

\* long division: the first n bits after the point of rem / den (0 <= rem < den)
\* and the remainder left after them
RECURSIVE FractionBits(_, _, _)
FractionBits(rem, den, n) ==
    IF n = 0 THEN [bits |-> <<>>, rem |-> rem]
    ELSE LET d     == IF n < DigitBits THEN n ELSE DigitBits
             digit == (rem * (2 ^ d)) \div den
             rest  == FractionBits((rem * (2 ^ d)) % den, den, n - d)
         IN  [bits |-> Binary(digit, d) \o rest.bits, rem |-> rest.rem]

\* the number of doublings that bring num up to den
RECURSIVE Doublings(_, _)
Doublings(num, den) == IF num >= den THEN 0 ELSE 1 + Doublings(2 * num, den)

\* num / den in binary64, for integers num > 0 and den > 0
Divide(num, den) ==
    LET s       == Doublings(num, den)
        scaled  == num * (2 ^ s)
        whole   == BitsOf(scaled \div den)
        frac    == FractionBits(scaled % den, den, SignificandBits + 1)
        sticky  == IF frac.rem = 0 THEN 0 ELSE 1
    IN  RoundToNearestEven(Len(whole) - 1 - s, whole \o frac.bits \o <<sticky>>)

\* long multiplication: bits times the natural number k, plus carry
RECURSIVE TimesBits(_, _, _)
TimesBits(bits, k, carry) ==
    IF bits = <<>> THEN BitsOf(carry)
    ELSE LET d == IF Len(bits) < DigitBits THEN Len(bits) ELSE DigitBits
             v == NatOf(SubSeq(bits, Len(bits) - d + 1, Len(bits))) * k + carry
         IN  TimesBits(SubSeq(bits, 1, Len(bits) - d), k, v \div (2 ^ d))
                 \o Binary(v % (2 ^ d), d)

\* x * k in binary64, for a positive number x and an integer k > 0
Times(x, k) ==
    LET product == TimesBits(x.sig, k, 0)
    IN  RoundToNearestEven(x.exp + Len(product) - SignificandBits, product)

\* Math.round(x) for a positive number x below 2^52: the integer part, plus one
\* when the fraction is a half or more
MathRound(x) ==
    LET whole == IF x.exp >= 0 THEN SubSeq(x.sig, 1, x.exp + 1) ELSE <<>>
        half  == IF x.exp >= -1 THEN x.sig[x.exp + 2] ELSE 0
    IN  NatOf(whole) + half

\* Math.round((num / den) * 100) for num >= 0, den > 0
RoundPercent(num, den) ==
    IF num = 0 THEN 0 ELSE MathRound(Times(Divide(num, den), 100))

\* variant: the differences are summed with their signs
RECURSIVE SumAbsDifference_Signed(_)
SumAbsDifference_Signed(rs) ==
    IF rs = <<>> THEN 0
    ELSE SumAbsDifference_Signed(SubSeq(rs, 1, Len(rs) - 1)) + rs[Len(rs)].totalDifference

\* results.reduce((sum, r) => sum + Math.abs(r.totalDifference), 0)
RECURSIVE SumAbsDifference(_)
SumAbsDifference(rs) ==
    IF rs = <<>> THEN 0
    ELSE SumAbsDifference(SubSeq(rs, 1, Len(rs) - 1)) + Abs(rs[Len(rs)].totalDifference)

\* variant: an empty result list counts as fully matched
calculateSummary_EmptyIsFull(rs) ==
    LET totalRecords == Len(rs)
        matchedCount == CountStatus(rs, "matched")
    IN  [totalRecords           |-> totalRecords,
         matchedCount           |-> matchedCount,
         mismatchedCount        |-> CountStatus(rs, "mismatched"),
         missingInPurchaseCount |-> CountStatus(rs, "missing_in_purchase"),
         missingInSalesCount    |-> CountStatus(rs, "missing_in_sales"),
         matchPercentage        |-> IF totalRecords > 0
                                    THEN RoundPercent(matchedCount, totalRecords)
                                    ELSE 100,
         totalDifferenceAmount  |-> SumAbsDifference(rs)]

calculateSummary(rs) ==
    LET totalRecords == Len(rs)
        matchedCount == CountStatus(rs, "matched")
    IN  [totalRecords           |-> totalRecords,
         matchedCount           |-> matchedCount,
         mismatchedCount        |-> CountStatus(rs, "mismatched"),
         missingInPurchaseCount |-> CountStatus(rs, "missing_in_purchase"),
         missingInSalesCount    |-> CountStatus(rs, "missing_in_sales"),
         matchPercentage        |-> IF totalRecords > 0
                                    THEN RoundPercent(matchedCount, totalRecords)
                                    ELSE 0,
         totalDifferenceAmount  |-> SumAbsDifference(rs)]

(***************************************************************************)
(* getStatusLabel and getStatusColor                                       *)
(***************************************************************************)
\* the switch has no default: any other value falls out of it as undefined
getStatusLabel(status) ==
    CASE status = "matched"             -> "Matched"
      [] status = "mismatched"          -> "Mismatched"
      [] status = "missing_in_purchase" -> "Missing in Purchase"
      [] status = "missing_in_sales"    -> "Missing in Sales"
      [] OTHER                          -> Null

\* variant: the two missing statuses get the secondary colour
getStatusColor_MissingSecondary(status) ==
    CASE status = "matched"             -> "success"
      [] status = "mismatched"          -> "destructive"
      [] status = "missing_in_purchase" -> "secondary"
      [] status = "missing_in_sales"    -> "secondary"
      [] OTHER                          -> Null

getStatusColor(status) ==
    CASE status = "matched"             -> "success"
      [] status = "mismatched"          -> "destructive"
      [] status = "missing_in_purchase" -> "warning"
      [] status = "missing_in_sales"    -> "warning"
      [] OTHER                          -> Null

(***************************************************************************)
(* Input records                                                           *)
(***************************************************************************)
\* largest number of records in one collection of Spec
MaxRecords == 2

\* a FinancialRecord as parseRow builds it (rawData is never read by the engine)
FinancialRecord(invoiceNo, invoiceDate, gstin, partyName, taxableAmount, igst, cgst, sgst, totalAmount) ==
    [id            |-> <<"row-", 0>>,
     gstin         |-> gstin,
     partyName     |-> partyName,
     invoiceNo     |-> invoiceNo,
     invoiceDate   |-> invoiceDate,
     taxableAmount |-> taxableAmount,
     igst          |-> igst,
     cgst          |-> cgst,
     sgst          |-> sgst,
     totalAmount   |-> totalAmount]

\* the ids parseRow gives the rows of one file: `row-${index}`
WithRowIds(rows) == [i \in 1..Len(rows) |-> [rows[i] EXCEPT !.id = <<"row-", i - 1>>]]

SeqsUpTo(S, n) == UNION {[1..k -> S] : k \in 0..n}

Gstin1 == <<"2", "7", "a", "b">>
Gstin2 == <<"2", "9", "x", "y">>
NameHcl == <<"H", "C", "L">>
NameTcs == <<"T", "C", "S">>

DD == {<<"0", "5">>, <<"1", "2">>}
MM == {<<"0", "1">>, <<"1", "2">>}
YYYY == {<<"2", "0", "2", "4">>, <<"1", "9", "9", "9">>}

\* the date of day d, month m, year y written YYYY-MM-DD
DateIso(d, m, y) == y \o <<"-">> \o m \o <<"-">> \o d

\* the same date written DD-MM-YYYY, DD/MM/YYYY, or with one separator of each kind
DateSep(d, m, y, sep1, sep2) == d \o <<sep1>> \o m \o <<sep2>> \o y

Inv1 == <<"i", "n", "v", "1">>
Inv1Spaced == <<" ", "I", "n", "v", " ", "1">>
Inv2 == <<"i", "n", "v", "2">>
Jan5 == <<"J", "a", "n", " ", "5">>
D05 == <<"0", "5">>
M01 == <<"0", "1">>
Y2024 == <<"2", "0", "2", "4">>

\* the records of Spec: one invoice written in two date formats with totals 1.01
\* apart, the same invoice with a CGST difference only, the same invoice number
\* with an unrecognized date, and an invoice with empty date and zero amounts
Catalog ==
    { FinancialRecord(Inv1, DateIso(D05, M01, Y2024), Gstin1, NameHcl,
                      100000, 0, 9000, 9000, 118000),
      FinancialRecord(Inv1Spaced, DateSep(D05, M01, Y2024, "-", "-"), Gstin1, NameHcl,
                      100000, 0, 9000, 9000, 118101),
      FinancialRecord(Inv1, DateSep(D05, M01, Y2024, "/", "/"), Gstin1, NameHcl,
                      100000, 0, 9200, 9000, 118000),
      FinancialRecord(Inv1, Jan5, Gstin1, NameHcl,
                      50000, 9000, 0, 0, 59000),
      FinancialRecord(Inv2, <<>>, <<>>, <<>>,
                      0, 0, 0, 0, 0) }

\* the invoice numbers and date strings of SpecKeys
InvoiceNos ==
    { <<>>, <<"a", "1">>, <<" ", "A", " ", "1">>, <<"a", "\t", "1", " ">>, <<"b">> }

RecognizedDates ==
    UNION { { DateIso(d, m, y),
              DateSep(d, m, y, "-", "-"),
              DateSep(d, m, y, "/", "/"),
              DateSep(d, m, y, "-", "/"),
              DateSep(d, m, y, "/", "-"),
              <<" ">> \o DateSep(d, m, y, "-", "-") \o <<" ">> }
            : <<d, m, y>> \in DD \X MM \X YYYY }

OtherDates ==
    { <<>>, <<" ">>, Jan5, <<" ">> \o Jan5,
      <<"5", "-", "1", "-", "2", "0", "2", "4">>,
      <<"2", "0", "2", "4", "/", "0", "1", "/", "0", "5">>,
      <<"0", "5", ".", "0", "1", ".", "2", "0", "2", "4">> }

KeyRecords(gstin, partyName, taxableAmount, igst) ==
    { FinancialRecord(i, d, gstin, partyName,
                      taxableAmount, igst, 0, 0, taxableAmount + igst)
      : <<i, d>> \in InvoiceNos \X (RecognizedDates \cup OtherDates) }

\* the amounts of SpecAmounts: differences of 0, 1, 100 and 101 minor units, both signs
PurchaseAmounts == {0, 101}
SalesAmounts == {0, 1, 100, 101}

AmountRecords(amounts) ==
    { FinancialRecord(Inv1, DateIso(D05, M01, Y2024), Gstin1, NameHcl,
                      a[1], a[2], a[3], a[4], a[5])
      : a \in amounts \X amounts \X amounts \X amounts \X amounts }

\* the GSTINs and party names of SpecFields: empty, blank, a value, the same value
\* in another case with surrounding blanks, a different value, a containing name
GstinValues ==
    { <<>>, <<" ">>, Gstin1, <<" ", "2", "7", "A", "B", " ">>, Gstin2 }

NameHclTech == <<"H", "C", "L", " ", "T", "e", "c", "h", "n", "o", "l", "o", "g", "i", "e", "s">>
NameHclTechLtd == <<"H", "C", "L", " ", "T", "e", "c", "h", "n", "o", "l", "o", "g", "i", "e", "s", " ", "L", "t", "d">>

PartyNames ==
    { <<>>, <<" ">>, NameHclTech, NameHclTechLtd, <<" ", "h", "c", "l", " ">>, NameTcs }

\* the sales amounts of SpecFields: each field equal to the purchase side or 1.01 above
FieldRecords(amounts) ==
    { FinancialRecord(Inv1, DateIso(D05, M01, Y2024), g, n, a[1], a[2], a[3], a[4], a[5])
      : <<g, n, a>> \in GstinValues \X PartyNames
                         \X (amounts \X amounts \X amounts \X amounts \X amounts) }

\* largest number of records in one collection of SpecOrder
MaxOrderRecords == 3

\* the records of SpecOrder: three keys, one of them carried by two records that
\* differ in their total; empty strings, zero and negative amounts
OrderCatalog ==
    { FinancialRecord(<<"a">>, <<>>, <<>>, <<>>, 400, 0, 50, 50, 500),
      FinancialRecord(<<" ", "A">>, <<>>, <<>>, <<>>, 400, 0, 50, 50, 900),
      FinancialRecord(<<"b">>, <<>>, <<>>, <<>>, -300, 0, 0, 0, -300),
      FinancialRecord(<<>>, <<>>, <<>>, <<>>, 0, 0, 0, 0, 0) }

(***************************************************************************)
(* The state machine: the caller holds two collections, calls              *)
(* reconcileDatasets on them and then calculateSummary on the result.      *)
(***************************************************************************)
PurchaseFileName == "purchase.csv"
SalesFileName == "sales.csv"

\* what handlePurchaseData and handleSalesData keep about a loaded file, and null
\* for no records (uploadedAt, the time of the upload, is left out)
DatasetInfo(records, fileName, columns) ==
    IF Len(records) = 0
    THEN Null
    ELSE [fileName    |-> fileName,
          recordCount |-> Len(records),
          columns     |-> columns]

InitWith(purchaseInputs, salesInputs) ==
    /\ purchaseRecords \in purchaseInputs
    /\ salesRecords \in salesInputs
    /\ purchaseInfo = DatasetInfo(purchaseRecords, PurchaseFileName, <<>>)
    /\ salesInfo = DatasetInfo(salesRecords, SalesFileName, <<>>)
    /\ results = <<>>
    /\ filteredResults = <<>>
    /\ summary = Null
    /\ activeTab = "upload"
    /\ pc = "input"

\* const reconciliationResults = reconcileDatasets(purchaseRecords, salesRecords)
Reconcile ==
    /\ pc = "input"
    /\ results' = reconcileDatasets(purchaseRecords, salesRecords)
    /\ pc' = "reconciled"
    /\ UNCHANGED <<purchaseRecords, salesRecords, summary, display>>

\* const reconciliationSummary = calculateSummary(reconciliationResults)
Summarize ==
    /\ pc = "reconciled"
    /\ summary' = calculateSummary(results)
    /\ pc' = "summarized"
    /\ UNCHANGED <<purchaseRecords, salesRecords, results, display>>

Next == Reconcile \/ Summarize

\* collections of up to MaxRecords catalog records on each side
Init ==
    InitWith({WithRowIds(rows) : rows \in SeqsUpTo(Catalog, MaxRecords)},
             {WithRowIds(rows) : rows \in SeqsUpTo(Catalog, MaxRecords)})

Spec == Init /\ [][Next]_vars

\* at most one record on each side, over all invoice numbers and date strings;
\* the two sides differ in every field that is not part of the key
InitKeys ==
    InitWith({WithRowIds(rows) : rows \in SeqsUpTo(KeyRecords(Gstin1, NameHcl, 100000, 18000), 1)},
             {WithRowIds(rows) : rows \in SeqsUpTo(KeyRecords(Gstin2, NameTcs, 50000, 0), 1)})

SpecKeys == InitKeys /\ [][Next]_vars

\* one record on each side with the same key, over all GSTINs, party names and
\* every choice of the amount fields that differ
InitFields ==
    InitWith({WithRowIds(<<r>>) : r \in FieldRecords({0})},
             {WithRowIds(<<r>>) : r \in FieldRecords({0, 101})})

SpecFields == InitFields /\ [][Next]_vars

\* up to MaxOrderRecords purchase records and one fewer sales records, with
\* repeated keys on either side
InitOrder ==
    InitWith({WithRowIds(rows) : rows \in SeqsUpTo(OrderCatalog, MaxOrderRecords)},
             {WithRowIds(rows) : rows \in SeqsUpTo(OrderCatalog, MaxOrderRecords - 1)})

SpecOrder == InitOrder /\ [][Next]_vars

\* one record on each side with the same key, over all amounts
InitAmounts ==
    InitWith({WithRowIds(<<r>>) : r \in AmountRecords(PurchaseAmounts)},
             {WithRowIds(<<r>>) : r \in AmountRecords(SalesAmounts)})

SpecAmounts == InitAmounts /\ [][Next]_vars

\* records whose invoice number or date contains the key separator
CollisionCatalog ==
    { FinancialRecord(<<"A", "|">>, <<"X">>, <<>>, <<>>, 100, 0, 0, 0, 100),
      FinancialRecord(<<"A">>, <<"|", "X">>, <<>>, <<>>, 100, 0, 0, 0, 100),
      FinancialRecord(<<"a">>, <<"|", "X">>, <<>>, <<>>, 500, 0, 0, 0, 500),
      FinancialRecord(<<"A">>, <<"X">>, <<>>, <<>>, 100, 0, 0, 0, 100) }

\* collections of up to MaxRecords of these records on each side
InitCollision ==
    InitWith({WithRowIds(rows) : rows \in SeqsUpTo(CollisionCatalog, MaxRecords)},
             {WithRowIds(rows) : rows \in SeqsUpTo(CollisionCatalog, MaxRecords)})

SpecCollision == InitCollision /\ [][Next]_vars

\* largest number of records in one collection of SpecPercent
MaxResults == 40

\* an invoice number made of the decimal digits of n
RECURSIVE InvoiceNoOf(_)
InvoiceNoOf(n) ==
    LET digit == <<"0", "1", "2", "3", "4", "5", "6", "7", "8", "9">>[(n % 10) + 1]
    IN  IF n < 10 THEN <<digit>> ELSE Append(InvoiceNoOf(n \div 10), digit)

\* n records that differ in their invoice number only
NumberedRecords(n) ==
    WithRowIds([i \in 1..n |->
                   FinancialRecord(InvoiceNoOf(i), <<>>, <<>>, <<>>, 0, 0, 0, 0, 0)])

\* what the run gives for the numbered records as purchases and the first
\* matched of them as sales: matched results, then missing_in_sales results
NumberedResults(total, matched) ==
    LET records == NumberedRecords(total)
    IN  [i \in 1..total |->
            IF i <= matched
            THEN MatchedResult(generateMatchKey(records[i]), records[i], records[i], i - 1)
            ELSE MissingInSalesResult(generateMatchKey(records[i]), records[i], i - 1)]

\* every count of matched results out of every total up to MaxResults: the page
\* before the run for the totals up to MaxRecords, and after the run for all
InitPercent ==
    \E total \in 0..MaxResults : \E matched \in 0..total :
        /\ purchaseRecords = NumberedRecords(total)
        /\ salesRecords = NumberedRecords(matched)
        /\ purchaseInfo = DatasetInfo(purchaseRecords, PurchaseFileName, <<>>)
        /\ salesInfo = DatasetInfo(salesRecords, SalesFileName, <<>>)
        /\ filteredResults = <<>>
        /\ activeTab = "upload"
        /\ summary = Null
        /\ \/ /\ total <= MaxRecords
              /\ results = <<>>
              /\ pc = "input"
           \/ /\ results = NumberedResults(total, matched)
              /\ pc = "reconciled"

SpecPercent == InitPercent /\ [][Next]_vars

(***************************************************************************)
(* Ingestion: parseNumber (utils), detectColumnMappings, parseRow and the  *)
(* completion of processFile (FileUpload)                                  *)
(***************************************************************************)
DigitChars == <<"0", "1", "2", "3", "4", "5", "6", "7", "8", "9">>

DigitValue(c) == (CHOOSE i \in 1..Len(DigitChars) : DigitChars[i] = c) - 1

\* the longest prefix of s made of decimal digits
LeadingDigits(s) ==
    LET n == CHOOSE k \in 0..Len(s) :
                 /\ \A i \in 1..k : s[i] \in Digits
                 /\ k = Len(s) \/ s[k + 1] \notin Digits
    IN  SubSeq(s, 1, n)

\* the number a sequence of decimal digits writes
RECURSIVE Decimal(_)
Decimal(digits) ==
    IF digits = <<>>
    THEN 0
    ELSE 10 * Decimal(SubSeq(digits, 1, Len(digits) - 1)) + DigitValue(digits[Len(digits)])

\* the fraction digits of a decimal literal in minor units; amounts are written
\* with at most two fraction digits
Hundredths(fraction) == Decimal(SubSeq(fraction \o <<"0", "0">>, 1, 2))

\* the global parseFloat on the longest prefix that is a decimal literal: an
\* optional sign, digits and an optional fraction (none of the modelled cells
\* writes an exponent); isNaN when no prefix is a literal
parseFloat(s) ==
    LET trimmed == TrimStart(s)
        signed == trimmed # <<>> /\ Head(trimmed) \in {"+", "-"}
        body == IF signed THEN Tail(trimmed) ELSE trimmed
        whole == LeadingDigits(body)
        afterWhole == SubSeq(body, Len(whole) + 1, Len(body))
        fraction == IF afterWhole # <<>> /\ Head(afterWhole) = "."
                    THEN LeadingDigits(Tail(afterWhole))
                    ELSE <<>>
        magnitude == 100 * Decimal(whole) + Hundredths(fraction)
    IN  IF whole = <<>> /\ fraction = <<>>
        THEN [isNaN |-> TRUE, value |-> 0]
        ELSE [isNaN |-> FALSE,
              value |-> IF Head(trimmed) = "-" THEN -magnitude ELSE magnitude]

\* parseNumber of a string (parseRow passes nothing else): the currency sign,
\* commas and blanks are removed, and NaN becomes 0
parseNumber(value) ==
    LET cleaned == SelectSeq(value, LAMBDA c : c \notin ({"₹", ","} \cup Whitespace))
        parsed == parseFloat(cleaned)
    IN  IF parsed.isNaN THEN 0 ELSE parsed.value

Fields == <<"gstin", "partyName", "invoiceNo", "invoiceDate", "taxableAmount",
            "igst", "cgst", "sgst", "totalAmount">>

COLUMN_ALIASES ==
    [gstin         |-> \* GSTIN, GST No, GST Number, Supplier GSTIN, Customer GSTIN, GSTIN/UIN
      <<
         <<"G", "S", "T", "I", "N">>,
         <<"G", "S", "T", " ", "N", "o">>,
         <<"G", "S", "T", " ", "N", "u", "m", "b", "e", "r">>,
         <<"S", "u", "p", "p", "l", "i", "e", "r", " ", "G", "S", "T", "I", "N">>,
         <<"C", "u", "s", "t", "o", "m", "e", "r", " ", "G", "S", "T", "I", "N">>,
         <<"G", "S", "T", "I", "N", "/", "U", "I", "N">> >>,
     partyName     |-> \* Party Name, Supplier Name, Customer Name, Name, Vendor Name, Business Name
      <<
         <<"P", "a", "r", "t", "y", " ", "N", "a", "m", "e">>,
         <<"S", "u", "p", "p", "l", "i", "e", "r", " ", "N", "a", "m", "e">>,
         <<"C", "u", "s", "t", "o", "m", "e", "r", " ", "N", "a", "m", "e">>,
         <<"N", "a", "m", "e">>,
         <<"V", "e", "n", "d", "o", "r", " ", "N", "a", "m", "e">>,
         <<"B", "u", "s", "i", "n", "e", "s", "s", " ", "N", "a", "m", "e">> >>,
     invoiceNo     |-> \* Invoice No, Invoice Number, Inv No, Bill No, Document No, Voucher No
      <<
         <<"I", "n", "v", "o", "i", "c", "e", " ", "N", "o">>,
         <<"I", "n", "v", "o", "i", "c", "e", " ", "N", "u", "m", "b", "e", "r">>,
         <<"I", "n", "v", " ", "N", "o">>,
         <<"B", "i", "l", "l", " ", "N", "o">>,
         <<"D", "o", "c", "u", "m", "e", "n", "t", " ", "N", "o">>,
         <<"V", "o", "u", "c", "h", "e", "r", " ", "N", "o">> >>,
     invoiceDate   |-> \* Invoice Date, Date, Bill Date, Document Date, Voucher Date
      <<
         <<"I", "n", "v", "o", "i", "c", "e", " ", "D", "a", "t", "e">>,
         <<"D", "a", "t", "e">>,
         <<"B", "i", "l", "l", " ", "D", "a", "t", "e">>,
         <<"D", "o", "c", "u", "m", "e", "n", "t", " ", "D", "a", "t", "e">>,
         <<"V", "o", "u", "c", "h", "e", "r", " ", "D", "a", "t", "e">> >>,
     taxableAmount |-> \* Taxable Amount, Taxable Value, Base Amount, Net Amount, Amount
      <<
         <<"T", "a", "x", "a", "b", "l", "e", " ", "A", "m", "o", "u", "n", "t">>,
         <<"T", "a", "x", "a", "b", "l", "e", " ", "V", "a", "l", "u", "e">>,
         <<"B", "a", "s", "e", " ", "A", "m", "o", "u", "n", "t">>,
         <<"N", "e", "t", " ", "A", "m", "o", "u", "n", "t">>,
         <<"A", "m", "o", "u", "n", "t">> >>,
     igst          |-> \* IGST, IGST Amount, Integrated Tax
      <<
         <<"I", "G", "S", "T">>,
         <<"I", "G", "S", "T", " ", "A", "m", "o", "u", "n", "t">>,
         <<"I", "n", "t", "e", "g", "r", "a", "t", "e", "d", " ", "T", "a", "x">> >>,
     cgst          |-> \* CGST, CGST Amount, Central Tax
      <<
         <<"C", "G", "S", "T">>,
         <<"C", "G", "S", "T", " ", "A", "m", "o", "u", "n", "t">>,
         <<"C", "e", "n", "t", "r", "a", "l", " ", "T", "a", "x">> >>,
     sgst          |-> \* SGST, SGST Amount, State Tax, UTGST
      <<
         <<"S", "G", "S", "T">>,
         <<"S", "G", "S", "T", " ", "A", "m", "o", "u", "n", "t">>,
         <<"S", "t", "a", "t", "e", " ", "T", "a", "x">>,
         <<"U", "T", "G", "S", "T">> >>,
     totalAmount   |-> \* Total Amount, Total, Invoice Value, Gross Amount, Invoice Amount
      <<
         <<"T", "o", "t", "a", "l", " ", "A", "m", "o", "u", "n", "t">>,
         <<"T", "o", "t", "a", "l">>,
         <<"I", "n", "v", "o", "i", "c", "e", " ", "V", "a", "l", "u", "e">>,
         <<"G", "r", "o", "s", "s", " ", "A", "m", "o", "u", "n", "t">>,
         <<"I", "n", "v", "o", "i", "c", "e", " ", "A", "m", "o", "u", "n", "t">> >>]

\* the first header that is one of the aliases, compared in lower case and
\* trimmed; 0 when there is none
FirstMatch(headers, aliases) ==
    LET normalizedAliases == {trim(toLowerCase(aliases[i])) : i \in 1..Len(aliases)}
        hits == {i \in 1..Len(headers) : trim(toLowerCase(headers[i])) \in normalizedAliases}
    IN  IF hits = {} THEN 0 ELSE CHOOSE i \in hits : \A j \in hits : i <= j

findColumn(headers, aliases) == headers[FirstMatch(headers, aliases)]

\* the fields for which a column was found, each with its column
detectColumnMappings(headers) ==
    [field \in {Fields[i] : i \in 1..Len(Fields)} \ {f \in {Fields[i] : i \in 1..Len(Fields)} : FirstMatch(headers, COLUMN_ALIASES[f]) = 0}
        |-> findColumn(headers, COLUMN_ALIASES[field])]

\* getValue of parseRow: the cell of the field's column, or the default when the
\* field has no column, the row has no such cell or the cell is empty
getValue(row, mappings, field, defaultValue) ==
    IF field \notin DOMAIN mappings
    THEN defaultValue
    ELSE IF mappings[field] \notin DOMAIN row \/ row[mappings[field]] = <<>>
         THEN defaultValue
         ELSE row[mappings[field]]

getNumericValue(row, mappings, field) == parseNumber(getValue(row, mappings, field, <<"0">>))

\* if (totalAmount === 0 && taxableAmount > 0) totalAmount = taxableAmount + igst + cgst + sgst
TotalOf(totalAmount, taxableAmount, igst, cgst, sgst) ==
    IF totalAmount = 0 /\ taxableAmount > 0
    THEN taxableAmount + igst + cgst + sgst
    ELSE totalAmount

parseRow(row, index, mappings) ==
    LET taxableAmount == getNumericValue(row, mappings, "taxableAmount")
        igst == getNumericValue(row, mappings, "igst")
        cgst == getNumericValue(row, mappings, "cgst")
        sgst == getNumericValue(row, mappings, "sgst")
        totalAmount == getNumericValue(row, mappings, "totalAmount")
    IN  [id            |-> <<"row-", index>>,
         gstin         |-> getValue(row, mappings, "gstin", <<>>),
         partyName     |-> getValue(row, mappings, "partyName", <<>>),
         invoiceNo     |-> getValue(row, mappings, "invoiceNo", <<>>),
         invoiceDate   |-> getValue(row, mappings, "invoiceDate", <<>>),
         taxableAmount |-> taxableAmount,
         igst          |-> igst,
         cgst          |-> cgst,
         sgst          |-> sgst,
         totalAmount   |-> TotalOf(totalAmount, taxableAmount, igst, cgst, sgst),
         rawData       |-> row]

\* a parsed file: its name, the keys of its first row and its rows
File(name, headers, rows) == [name |-> name, headers |-> headers, rows |-> rows]

\* processFile goes on to parse the rows: the file has a row and a column for the
\* invoice number
Accepted(file) ==
    /\ Len(file.rows) # 0
    /\ "invoiceNo" \in DOMAIN detectColumnMappings(file.headers)

\* data.map(parseRow).filter((record) => record.invoiceNo)
RecordsOf(file) ==
    LET mappings == detectColumnMappings(file.headers)
    IN  SelectSeq([i \in 1..Len(file.rows) |-> parseRow(file.rows[i], i - 1, mappings)],
                  LAMBDA record : record.invoiceNo # <<>>)

\* the calls onDataLoaded(records, file.name, headers) that processFile makes for
\* the files of a set: one for each file it does not turn away
LoadsOf(files) ==
    {[records |-> RecordsOf(file), fileName |-> file.name, columns |-> file.headers] :
        file \in {f \in files : Accepted(f)}}

(***************************************************************************)
(* The page (page.tsx) with its FileUpload cards and its FilterPanel       *)
(***************************************************************************)
\* a ?? b on two strings under ||: the first one that is not empty
OrElse(a, b) == IF a # <<>> THEN a ELSE b

\* result.purchaseRecord?.field || result.salesRecord?.field || ""
TextOf(result, field) ==
    OrElse(IF result.purchaseRecord = Null THEN <<>> ELSE result.purchaseRecord[field],
           IF result.salesRecord = Null THEN <<>> ELSE result.salesRecord[field])

\* result.purchaseRecord?.totalAmount || result.salesRecord?.totalAmount || 0
DisplayedAmount(result) ==
    IF result.purchaseRecord # Null /\ result.purchaseRecord.totalAmount # 0
    THEN result.purchaseRecord.totalAmount
    ELSE IF result.salesRecord # Null THEN result.salesRecord.totalAmount ELSE 0

\* the search filter of applyFilters
MatchesSearch(result, searchQuery) ==
    LET query == trim(toLowerCase(searchQuery))
    IN  \/ includes(toLowerCase(TextOf(result, "invoiceNo")), query)
        \/ includes(toLowerCase(TextOf(result, "partyName")), query)
        \/ includes(toLowerCase(TextOf(result, "gstin")), query)

\* the amount filter: min = parseFloat(minAmount) || 0, max = parseFloat(maxAmount) || Infinity
InRange(result, minAmount, maxAmount) ==
    LET min == parseFloat(minAmount)
        max == parseFloat(maxAmount)
    IN  /\ DisplayedAmount(result) >= (IF min.isNaN THEN 0 ELSE min.value)
        /\ max.isNaN \/ max.value = 0 \/ DisplayedAmount(result) <= max.value

\* the list applyFilters hands to onFilteredResults
Filtered(rs, searchQuery, statusFilter, minAmount, maxAmount) ==
    LET searched == IF trim(searchQuery) # <<>>
                    THEN SelectSeq(rs, LAMBDA result : MatchesSearch(result, searchQuery))
                    ELSE rs
        ofStatus == IF statusFilter # "all"
                    THEN SelectSeq(searched, LAMBDA result : result.status = statusFilter)
                    ELSE searched
    IN  IF minAmount # <<>> \/ maxAmount # <<>>
        THEN SelectSeq(ofStatus, LAMBDA result : InRange(result, minAmount, maxAmount))
        ELSE ofStatus

canReconcile == Len(purchaseRecords) > 0 /\ Len(salesRecords) > 0

hasResults == Len(results) > 0

\* handlePurchaseData that also discards the results of the earlier run
handlePurchaseData_ResultsDropped(records, fileName, columns) ==
    /\ purchaseRecords' = records
    /\ purchaseInfo' = DatasetInfo(records, fileName, columns)
    /\ results' = <<>>
    /\ filteredResults' = <<>>
    /\ summary' = Null
    /\ UNCHANGED <<salesRecords, salesInfo, activeTab, pc>>

handlePurchaseData(records, fileName, columns) ==
    /\ purchaseRecords' = records
    /\ purchaseInfo' = DatasetInfo(records, fileName, columns)
    /\ UNCHANGED <<salesRecords, salesInfo, results, filteredResults, summary, activeTab, pc>>

handleSalesData(records, fileName, columns) ==
    /\ salesRecords' = records
    /\ salesInfo' = DatasetInfo(records, fileName, columns)
    /\ UNCHANGED <<purchaseRecords, purchaseInfo, results, filteredResults, summary, activeTab, pc>>

\* the completion of processFile for a file given to the purchase card; Papa.parse
\* completes asynchronously, so it can arrive in any state of the page
UploadPurchase(loads) ==
    \E load \in loads : handlePurchaseData(load.records, load.fileName, load.columns)

UploadSales(loads) ==
    \E load \in loads : handleSalesData(load.records, load.fileName, load.columns)

\* the clear button of a loaded purchase card: onDataLoaded([], "", [])
ClearPurchase ==
    /\ activeTab = "upload"
    /\ Len(purchaseRecords) > 0
    /\ handlePurchaseData(<<>>, "", <<>>)

ClearSales ==
    /\ activeTab = "upload"
    /\ Len(salesRecords) > 0
    /\ handleSalesData(<<>>, "", <<>>)

\* runReconciliation that leaves the filtered list of the earlier run in place
runReconciliation_FilterKept ==
    /\ activeTab = "upload"
    /\ canReconcile
    /\ results' = reconcileDatasets(purchaseRecords, salesRecords)
    /\ summary' = calculateSummary(results')
    /\ activeTab' = "results"
    /\ UNCHANGED <<purchaseRecords, salesRecords, purchaseInfo, salesInfo, filteredResults, pc>>

\* the Run Reconciliation button, disabled unless canReconcile
runReconciliation ==
    /\ activeTab = "upload"
    /\ canReconcile
    /\ results' = reconcileDatasets(purchaseRecords, salesRecords)
    /\ filteredResults' = results'
    /\ summary' = calculateSummary(results')
    /\ activeTab' = "results"
    /\ UNCHANGED <<purchaseRecords, salesRecords, purchaseInfo, salesInfo, pc>>

Queries == {<<>>, <<" ", "a", "1">>, <<"Z", "e", "d">>}

StatusFilters == {"all", "matched", "mismatched", "missing_in_purchase", "missing_in_sales"}

AmountTexts == {<<>>, <<"6", "0", "0">>}

\* the Apply Filters button of the FilterPanel, shown in the results tab when there
\* is a summary, with what the user typed into the panel's fields
applyFilters ==
    /\ activeTab = "results"
    /\ summary # Null
    /\ \E searchQuery \in Queries, statusFilter \in StatusFilters, minAmount \in AmountTexts, maxAmount \in AmountTexts :
           filteredResults' = Filtered(results, searchQuery, statusFilter, minAmount, maxAmount)
    /\ UNCHANGED <<purchaseRecords, salesRecords, purchaseInfo, salesInfo, results, summary, activeTab, pc>>

\* the Clear button of the FilterPanel
clearFilters ==
    /\ activeTab = "results"
    /\ summary # Null
    /\ filteredResults' = results
    /\ UNCHANGED <<purchaseRecords, salesRecords, purchaseInfo, salesInfo, results, summary, activeTab, pc>>

\* Tabs onValueChange={setActiveTab}; the results trigger is disabled without results
SelectTab_Ungated ==
    /\ \E tab \in {"upload", "results"} : activeTab' = tab
    /\ UNCHANGED <<purchaseRecords, salesRecords, purchaseInfo, salesInfo, results, filteredResults, summary, pc>>

SelectTab ==
    /\ \E tab \in {"upload", "results"} :
           /\ tab = "results" => hasResults
           /\ activeTab' = tab
    /\ UNCHANGED <<purchaseRecords, salesRecords, purchaseInfo, salesInfo, results, filteredResults, summary, pc>>

\* resetAll that forgets to clear the summary
resetAll_SummaryKept ==
    /\ hasResults
    /\ purchaseRecords' = <<>>
    /\ salesRecords' = <<>>
    /\ purchaseInfo' = Null
    /\ salesInfo' = Null
    /\ results' = <<>>
    /\ filteredResults' = <<>>
    /\ activeTab' = "upload"
    /\ UNCHANGED <<summary, pc>>

\* the Start Over button, shown when hasResults
resetAll ==
    /\ hasResults
    /\ purchaseRecords' = <<>>
    /\ salesRecords' = <<>>
    /\ purchaseInfo' = Null
    /\ salesInfo' = Null
    /\ results' = <<>>
    /\ filteredResults' = <<>>
    /\ summary' = Null
    /\ activeTab' = "upload"
    /\ UNCHANGED pc

\* the page as useState initializes it
InitPage ==
    /\ purchaseRecords = <<>>
    /\ salesRecords = <<>>
    /\ purchaseInfo = Null
    /\ salesInfo = Null
    /\ results = <<>>
    /\ filteredResults = <<>>
    /\ summary = Null
    /\ activeTab = "upload"
    /\ pc = "page"

HeaderInvNo == <<"I", "n", "v", " ", "N", "o">>
HeaderName == <<"N", "a", "m", "e">>
HeaderAmount == <<"A", "m", "o", "u", "n", "t">>
HeaderIgst == <<"I", "G", "S", "T">>
HeaderCgst == <<"C", "G", "S", "T">>
HeaderSgst == <<"S", "G", "S", "T">>
HeaderTotal == <<"T", "o", "t", "a", "l">>

\* a row of a file with the columns Inv No, Name and Total
PageRow(invoiceNo, partyName, total) ==
    (HeaderInvNo :> invoiceNo) @@ (HeaderName :> partyName) @@ (HeaderTotal :> total)

PageHeaders == <<HeaderInvNo, HeaderName, HeaderTotal>>

RowA1 == PageRow(<<"A", "1">>, <<"A", "c", "m", "e">>, <<"5", "0", "0">>)
RowA1Higher == PageRow(<<"A", "1">>, <<"A", "c", "m", "e">>, <<"7", "0", "0">>)
RowB2 == PageRow(<<"B", "2">>, <<"Z", "e", "d">>, <<"5", "0", "0">>)
RowBlank == PageRow(<<>>, <<"Z", "e", "d">>, <<"9", "0", "0">>)

\* most rows in a file of the page's catalogs
MaxFileRows == 1

\* files that processFile turns away or that leave no record: no row, no column
\* for the invoice number, no row with an invoice number
OddFiles(name) ==
    { File(name, <<>>, <<>>),
      File(name, <<HeaderName, HeaderTotal>>, <<(HeaderName :> <<"Z", "e", "d">>) @@ (HeaderTotal :> <<"5">>)>>),
      File(name, PageHeaders, <<RowBlank>>) }

FilesOf(name, rows) ==
    {File(name, PageHeaders, content) : content \in SeqsUpTo(rows, MaxFileRows) \ {<<>>}}

\* the purchase card is given files of up to MaxFileRows rows
PurchaseFiles == FilesOf(PurchaseFileName, {RowA1, RowA1Higher, RowB2}) \cup OddFiles(PurchaseFileName)

\* the sales card is given files of one row
SalesFiles ==
    {File(SalesFileName, PageHeaders, <<row>>) : row \in {RowA1, RowB2}} \cup OddFiles(SalesFileName)

PurchaseLoads == LoadsOf(PurchaseFiles)

SalesLoads == LoadsOf(SalesFiles)

NextPage ==
    \/ UploadPurchase(PurchaseLoads)
    \/ UploadSales(SalesLoads)
    \/ ClearPurchase
    \/ ClearSales
    \/ runReconciliation
    \/ applyFilters
    \/ clearFilters
    \/ SelectTab
    \/ resetAll

SpecPage == InitPage /\ [][NextPage]_vars

\* the cells of the amount columns of the ingestion catalog: empty, plain,
\* negative, with thousands separators and with the currency sign
TaxableCells == {<<>>, <<"1", "0", "0">>, <<"-", "1", "0", "0">>, <<"1", ",", "0", "0", "0">>}
IgstCells == {<<>>, <<"1", "8">>, <<"-", "1", "0", "0">>}
StateTaxCells == {<<>>, <<"9">>}
TotalCells == {<<>>, <<"0">>, <<"1", "1", "8">>, <<"₹", " ", "1", ",", "1", "8", "0", ".", "5", "0">>}

IngestHeaders == <<HeaderInvNo, HeaderAmount, HeaderIgst, HeaderCgst, HeaderSgst, HeaderTotal>>

\* rows with every column, and rows that stop before the Total column
IngestRows ==
    UNION {
        LET short == (HeaderInvNo :> <<"A", "1">>) @@ (HeaderAmount :> taxable) @@ (HeaderIgst :> igst)
                        @@ (HeaderCgst :> stateTax) @@ (HeaderSgst :> stateTax)
        IN  {short} \cup {short @@ (HeaderTotal :> total) : total \in TotalCells} :
        taxable \in TaxableCells, igst \in IgstCells, stateTax \in StateTaxCells}

\* one-row files of the ingestion catalog, and the same rows without a header a
\* total could be found under
IngestFiles ==
    {File(PurchaseFileName, IngestHeaders, <<row>>) : row \in IngestRows}
        \cup {File(PurchaseFileName, SubSeq(IngestHeaders, 1, 5), <<row>>) :
                 row \in {r \in IngestRows : HeaderTotal \notin DOMAIN r}}

IngestLoads == LoadsOf(IngestFiles)

\* the page while files of the ingestion catalog are given to the purchase card
NextIngest == UploadPurchase(IngestLoads) \/ UploadSales(SalesLoads) \/ ClearPurchase \/ ClearSales

SpecIngest == InitPage /\ [][NextIngest]_vars

(***************************************************************************)
(* Properties                                                              *)
(***************************************************************************)
Statuses == {"matched", "mismatched", "missing_in_purchase", "missing_in_sales"}

\* the match keys occurring in a collection
KeysOf(records) == {generateMatchKey(records[i]) : i \in 1..Len(records)}

\* the positions of the records of a collection that have a given key
WithKey(records, key) == {i \in 1..Len(records) : generateMatchKey(records[i]) = key}

\* the record a collection's map holds for a key: the last one with that key
Held(records, key) ==
    LET at == WithKey(records, key)
    IN  records[CHOOSE i \in at : \A j \in at : j <= i]

ResultsWithKey(key) == {i \in 1..Len(results) : results[i].matchKey = key}

StatusesOf(rs) == {rs[i].status : i \in 1..Len(rs)}

\* C1: every result has one of the four statuses, and the four counts of the
\* summary add up to totalRecords, which is the length of the result list.
C1_PartitionCompleteness ==
    /\ pc # "input" => \A i \in 1..Len(results) : results[i].status \in Statuses
    /\ pc = "summarized" =>
          /\ summary.totalRecords = Len(results)
          /\ summary.matchedCount + summary.mismatchedCount
               + summary.missingInPurchaseCount + summary.missingInSalesCount
             = summary.totalRecords

\* a summarized run whose results show three different statuses, one of them a pair
C1_Witness ==
    /\ pc = "summarized"
    /\ Cardinality(StatusesOf(results)) = 3
    /\ {"missing_in_sales", "missing_in_purchase"} \subseteq StatusesOf(results)

\* C2: the match keys of the results are exactly the keys of the purchase records
\* together with the keys of the sales records, and no two results share a key.
C2_OneResultPerKey ==
    pc # "input" =>
        /\ {results[i].matchKey : i \in 1..Len(results)}
             = KeysOf(purchaseRecords) \cup KeysOf(salesRecords)
        /\ \A i, j \in 1..Len(results) :
              results[i].matchKey = results[j].matchKey => i = j

\* a run in which one key is on both sides and another key on one side only
C2_Witness ==
    /\ pc # "input"
    /\ KeysOf(purchaseRecords) \cap KeysOf(salesRecords) # {}
    /\ KeysOf(salesRecords) \ KeysOf(purchaseRecords) # {}
    /\ Len(results) = 2

\* C3: for a key on both sides the result is matched exactly when findMismatches
\* of the two held records is empty, mismatched otherwise, and carries that list;
\* a result has reasons exactly when it is mismatched.
C3_PairClassification ==
    pc # "input" =>
        /\ \A key \in KeysOf(purchaseRecords) \cap KeysOf(salesRecords) :
              \E i \in 1..Len(results) :
                 LET expected == findMismatches(Held(purchaseRecords, key),
                                                Held(salesRecords, key))
                 IN  /\ results[i].matchKey = key
                     /\ results[i].mismatchReasons = expected
                     /\ results[i].status =
                           IF Len(expected) = 0 THEN "matched" ELSE "mismatched"
        /\ \A i \in 1..Len(results) :
              (results[i].status = "mismatched") <=> (Len(results[i].mismatchReasons) > 0)

\* a pair that differs in CGST only, hence mismatched with one reason
C3_Witness ==
    /\ pc # "input"
    /\ \E i \in 1..Len(results) :
          /\ results[i].status = "mismatched"
          /\ Len(results[i].mismatchReasons) = 1
          /\ results[i].mismatchReasons[1].field = "CGST"

\* C4: a missing_in_sales result has a purchase record and no sales record, a
\* missing_in_purchase result the reverse, and a matched or mismatched result
\* has both records, each of which yields the result's matchKey.
C4_RecordPresence ==
    pc # "input" =>
        \A i \in 1..Len(results) :
            LET r == results[i]
            IN  /\ r.status = "missing_in_sales" =>
                      r.purchaseRecord # Null /\ r.salesRecord = Null
                /\ r.status = "missing_in_purchase" =>
                      r.salesRecord # Null /\ r.purchaseRecord = Null
                /\ r.status \in {"matched", "mismatched"} =>
                      /\ r.purchaseRecord # Null
                      /\ r.salesRecord # Null
                      /\ generateMatchKey(r.purchaseRecord) = r.matchKey
                      /\ generateMatchKey(r.salesRecord) = r.matchKey

\* a run with a pair written in two date formats and a sales record without purchase
C4_Witness ==
    /\ pc # "input"
    /\ "missing_in_purchase" \in StatusesOf(results)
    /\ \E i \in 1..Len(results) :
          /\ results[i].status \in {"matched", "mismatched"}
          /\ results[i].purchaseRecord.invoiceDate # results[i].salesRecord.invoiceDate

\* C5: a key of the purchase collection only gives one missing_in_sales result
\* whose totalDifference is the purchase total; a key of the sales collection
\* only gives one missing_in_purchase result whose totalDifference is the
\* negated sales total; neither has reasons.
C5_OneSidedKeys ==
    pc # "input" =>
        /\ \A key \in KeysOf(purchaseRecords) \ KeysOf(salesRecords) :
              /\ Cardinality(ResultsWithKey(key)) = 1
              /\ \A i \in ResultsWithKey(key) :
                    /\ results[i].status = "missing_in_sales"
                    /\ results[i].purchaseRecord = Held(purchaseRecords, key)
                    /\ results[i].totalDifference
                         = Held(purchaseRecords, key).totalAmount
                    /\ results[i].mismatchReasons = <<>>
        /\ \A key \in KeysOf(salesRecords) \ KeysOf(purchaseRecords) :
              /\ Cardinality(ResultsWithKey(key)) = 1
              /\ \A i \in ResultsWithKey(key) :
                    /\ results[i].status = "missing_in_purchase"
                    /\ results[i].salesRecord = Held(salesRecords, key)
                    /\ results[i].totalDifference
                         = -Held(salesRecords, key).totalAmount
                    /\ results[i].mismatchReasons = <<>>

\* a run with a one-sided key on each side, both with a non-zero total
C5_Witness ==
    /\ pc # "input"
    /\ \E i, j \in 1..Len(results) :
          /\ results[i].status = "missing_in_sales"
          /\ results[i].totalDifference > 0
          /\ results[j].status = "missing_in_purchase"
          /\ results[j].totalDifference < 0

AmountFields == {"Taxable Amount", "IGST", "CGST", "SGST", "Total Amount"}

AmountOf(record, field) ==
    CASE field = "Taxable Amount" -> record.taxableAmount
      [] field = "IGST"           -> record.igst
      [] field = "CGST"           -> record.cgst
      [] field = "SGST"           -> record.sgst
      [] field = "Total Amount"   -> record.totalAmount

HasReason(r, field) ==
    \E k \in 1..Len(r.mismatchReasons) : r.mismatchReasons[k].field = field

ReasonFor(r, field) ==
    r.mismatchReasons[CHOOSE k \in 1..Len(r.mismatchReasons) :
                          r.mismatchReasons[k].field = field]

Paired(r) == r.purchaseRecord # Null /\ r.salesRecord # Null

\* the two records agree in every field except possibly totalAmount
OnlyTotalDiffers(p, s) ==
    /\ [p EXCEPT !.totalAmount = 0, !.id = 0] = [s EXCEPT !.totalAmount = 0, !.id = 0]
    /\ p.totalAmount # s.totalAmount

\* C6: with amounts in minor units (tolerance 1 = 100), each amount field has a
\* reason exactly when the two values differ by more than 100; records differing
\* only in totalAmount by 100 are matched, by 101 mismatched with the single
\* reason Total Amount whose difference is purchase - sales.
C6_ToleranceBoundary ==
    pc # "input" =>
        \A i \in 1..Len(results) :
            LET r == results[i]
                p == r.purchaseRecord
                s == r.salesRecord
            IN  Paired(r) =>
                  /\ \A f \in AmountFields :
                        HasReason(r, f) <=> (Abs(AmountOf(p, f) - AmountOf(s, f)) > 100)
                  /\ (OnlyTotalDiffers(p, s) /\ Abs(p.totalAmount - s.totalAmount) = 100)
                        => r.status = "matched"
                  /\ (OnlyTotalDiffers(p, s) /\ Abs(p.totalAmount - s.totalAmount) = 101)
                        => /\ r.status = "mismatched"
                           /\ Len(r.mismatchReasons) = 1
                           /\ r.mismatchReasons[1].field = "Total Amount"
                           /\ r.mismatchReasons[1].difference
                                = p.totalAmount - s.totalAmount

\* two records that differ only in totalAmount, the sales total larger by 1.01
C6_Witness ==
    /\ pc # "input"
    /\ Len(results) = 1
    /\ Paired(results[1])
    /\ OnlyTotalDiffers(results[1].purchaseRecord, results[1].salesRecord)
    /\ results[1].status = "mismatched"
    /\ results[1].mismatchReasons[1].difference = -101

\* C7: a matched pair has totalDifference 0; a mismatched pair has the signed
\* difference purchase total - sales total when Total Amount is among its
\* reasons, and 0 when it is not.
C7_TotalDifference ==
    pc # "input" =>
        \A i \in 1..Len(results) :
            LET r == results[i]
            IN  Paired(r) =>
                  /\ r.status = "matched" => r.totalDifference = 0
                  /\ (r.status = "mismatched" /\ HasReason(r, "Total Amount")) =>
                        /\ ReasonFor(r, "Total Amount").difference
                             = r.purchaseRecord.totalAmount - r.salesRecord.totalAmount
                        /\ r.totalDifference
                             = r.purchaseRecord.totalAmount - r.salesRecord.totalAmount
                  /\ (r.status = "mismatched" /\ ~HasReason(r, "Total Amount")) =>
                        r.totalDifference = 0

\* a pair mismatched on other fields whose totals differ within the tolerance
C7_Witness ==
    /\ pc # "input"
    /\ \E i \in 1..Len(results) :
          /\ results[i].status = "mismatched"
          /\ ~HasReason(results[i], "Total Amount")
          /\ results[i].purchaseRecord.totalAmount # results[i].salesRecord.totalAmount
          /\ results[i].totalDifference = 0

\* the records a result refers to
Attached(r) == {r.purchaseRecord, r.salesRecord} \ {Null}

\* the three accepted spellings of the date of day d, month m, year y
ThreeFormats(d, m, y) ==
    {DateIso(d, m, y), DateSep(d, m, y, "-", "-"), DateSep(d, m, y, "/", "/")}

\* C8: a date written YYYY-MM-DD, DD-MM-YYYY or DD/MM/YYYY gives the key whose
\* date part is YYYY-MM-DD, so a purchase and a sales record of one invoice
\* written in any two of these spellings are paired.
C8_DateFormatEquivalence ==
    pc # "input" =>
        /\ \A i \in 1..Len(results) : \A rec \in Attached(results[i]) :
              \A <<d, m, y>> \in DD \X MM \X YYYY :
                 rec.invoiceDate \in ThreeFormats(d, m, y) =>
                    results[i].matchKey
                      = normalizedInvoiceNo(rec) \o <<"|">> \o DateIso(d, m, y)
        /\ \A <<d, m, y>> \in DD \X MM \X YYYY :
              ( /\ Len(purchaseRecords) = 1
                /\ Len(salesRecords) = 1
                /\ purchaseRecords[1].invoiceNo = salesRecords[1].invoiceNo
                /\ purchaseRecords[1].invoiceDate \in ThreeFormats(d, m, y)
                /\ salesRecords[1].invoiceDate \in ThreeFormats(d, m, y) )
              => /\ Len(results) = 1
                 /\ results[1].status \in {"matched", "mismatched"}

\* 05/01/2024 on the purchase side paired with 2024-01-05 on the sales side
C8_Witness ==
    /\ pc # "input"
    /\ Len(results) = 1
    /\ Paired(results[1])
    /\ results[1].purchaseRecord.invoiceDate = DateSep(D05, M01, Y2024, "/", "/")
    /\ results[1].salesRecord.invoiceDate = DateIso(D05, M01, Y2024)

AllDigits(s, positions) == \A i \in positions : s[i] \in Digits

\* t is written YYYY-MM-DD
InYmd(t) ==
    /\ Len(t) = 10
    /\ AllDigits(t, {1, 2, 3, 4, 6, 7, 9, 10})
    /\ t[5] = "-" /\ t[8] = "-"

\* t is written DD-MM-YYYY (sep "-") or DD/MM/YYYY (sep "/")
InDmy(t, sep) ==
    /\ Len(t) = 10
    /\ AllDigits(t, {1, 2, 4, 5, 7, 8, 9, 10})
    /\ t[3] = sep /\ t[6] = sep

\* the trimmed date of the record is in none of the three formats
Unrecognized(rec) ==
    LET t == trim(rec.invoiceDate)
    IN  ~(InYmd(t) \/ InDmy(t, "-") \/ InDmy(t, "/"))

\* C9: a date in none of the three formats is the key's date part after
\* trimming, unchanged; two records of one invoice number with different
\* unrecognized dates are reported missing_in_sales and missing_in_purchase.
C9_DateFallback ==
    pc # "input" =>
        /\ \A i \in 1..Len(results) : \A rec \in Attached(results[i]) :
              Unrecognized(rec) =>
                 results[i].matchKey
                   = normalizedInvoiceNo(rec) \o <<"|">> \o trim(rec.invoiceDate)
        /\ ( /\ Len(purchaseRecords) = 1
             /\ Len(salesRecords) = 1
             /\ purchaseRecords[1].invoiceNo = salesRecords[1].invoiceNo
             /\ Unrecognized(purchaseRecords[1])
             /\ Unrecognized(salesRecords[1])
             /\ trim(purchaseRecords[1].invoiceDate) # trim(salesRecords[1].invoiceDate) )
           => /\ Len(results) = 2
              /\ StatusesOf(results) = {"missing_in_sales", "missing_in_purchase"}

\* the invoice number without its whitespace characters, in upper case
NormalInvoice(invoiceNo) ==
    LET kept == SelectSeq(invoiceNo, LAMBDA c : c \notin Whitespace)
    IN  [i \in 1..Len(kept) |-> ToUpperChar(kept[i])]

\* C10: the key is the normalized invoice number, "|", the normalized date and
\* depends on no other field; an empty date gives an empty date part, an empty
\* invoice number with an empty date the key "|"; invoice numbers that differ in
\* case or whitespace only, with equally normalizing dates, give one key.
C10_KeyShape ==
    pc # "input" =>
        /\ \A i \in 1..Len(results) : \A rec \in Attached(results[i]) :
              /\ results[i].matchKey
                   = NormalInvoice(rec.invoiceNo) \o <<"|">> \o normalizedDate(rec)
              /\ rec.invoiceDate = <<>> =>
                    results[i].matchKey = NormalInvoice(rec.invoiceNo) \o <<"|">>
              /\ (rec.invoiceNo = <<>> /\ rec.invoiceDate = <<>>) =>
                    results[i].matchKey = <<"|">>
        /\ ( /\ Len(purchaseRecords) = 1
             /\ Len(salesRecords) = 1
             /\ NormalInvoice(purchaseRecords[1].invoiceNo)
                  = NormalInvoice(salesRecords[1].invoiceNo)
             /\ normalizedDate(purchaseRecords[1]) = normalizedDate(salesRecords[1]) )
           => /\ Len(results) = 1
              /\ Paired(results[1])

\* " A 1" and "a<tab>1 " with equal dates, differing in every other field, paired
C10_Witness ==
    /\ pc # "input"
    /\ Len(results) = 1
    /\ Paired(results[1])
    /\ results[1].purchaseRecord.invoiceNo = <<" ", "A", " ", "1">>
    /\ results[1].salesRecord.invoiceNo = <<"a", "\t", "1", " ">>
    /\ results[1].purchaseRecord.gstin # results[1].salesRecord.gstin

\* a string after trimming and case folding
Folded(s) == toLowerCase(trim(s))

\* a occurs in b as a contiguous part
Substring(a, b) == \E i \in 1..(Len(b) + 1) : \E j \in 0..Len(b) : SubSeq(b, i, j) = a

GstinFlagged(p, s) ==
    /\ trim(p.gstin) # <<>>
    /\ trim(s.gstin) # <<>>
    /\ Folded(p.gstin) # Folded(s.gstin)

NameFlagged(p, s) ==
    /\ trim(p.partyName) # <<>>
    /\ trim(s.partyName) # <<>>
    /\ Folded(p.partyName) # Folded(s.partyName)
    /\ ~Substring(Folded(p.partyName), Folded(s.partyName))
    /\ ~Substring(Folded(s.partyName), Folded(p.partyName))

\* C11: a GSTIN reason is emitted exactly when both GSTINs are non-empty after
\* trimming and differ after trimming and case folding; it carries the two
\* original values and no difference.
C11_GstinRule ==
    pc # "input" =>
        \A i \in 1..Len(results) :
            LET r == results[i]
                p == r.purchaseRecord
                s == r.salesRecord
            IN  Paired(r) =>
                  /\ HasReason(r, "GSTIN") <=> GstinFlagged(p, s)
                  /\ HasReason(r, "GSTIN") =>
                        /\ ReasonFor(r, "GSTIN").purchaseValue = p.gstin
                        /\ ReasonFor(r, "GSTIN").salesValue = s.gstin
                        /\ "difference" \notin DOMAIN ReasonFor(r, "GSTIN")

\* a GSTIN reason whose purchase value keeps its blanks and upper case
C11_Witness ==
    /\ pc # "input"
    /\ Len(results) = 1
    /\ HasReason(results[1], "GSTIN")
    /\ ReasonFor(results[1], "GSTIN").purchaseValue = <<" ", "2", "7", "A", "B", " ">>
    /\ ReasonFor(results[1], "GSTIN").salesValue = Gstin2

\* the two records agree in every field except possibly partyName
OnlyNameDiffers(p, s) ==
    [p EXCEPT !.partyName = <<>>, !.id = 0] = [s EXCEPT !.partyName = <<>>, !.id = 0]

\* C12: a Party Name reason is emitted exactly when both names are non-empty
\* after trimming, differ after trimming and case folding, and neither contains
\* the other; it has no difference; "HCL Technologies" against
\* "HCL Technologies Ltd" on otherwise identical records is matched.
C12_PartyNameRule ==
    pc # "input" =>
        \A i \in 1..Len(results) :
            LET r == results[i]
                p == r.purchaseRecord
                s == r.salesRecord
            IN  Paired(r) =>
                  /\ HasReason(r, "Party Name") <=> NameFlagged(p, s)
                  /\ HasReason(r, "Party Name") =>
                        "difference" \notin DOMAIN ReasonFor(r, "Party Name")
                  /\ ( /\ p.partyName = NameHclTech
                       /\ s.partyName = NameHclTechLtd
                       /\ OnlyNameDiffers(p, s) )
                     => r.status = "matched"

\* the two HCL names on otherwise identical records
C12_Witness ==
    /\ pc # "input"
    /\ Len(results) = 1
    /\ Paired(results[1])
    /\ results[1].purchaseRecord.partyName = NameHclTech
    /\ results[1].salesRecord.partyName = NameHclTechLtd
    /\ OnlyNameDiffers(results[1].purchaseRecord, results[1].salesRecord)

FieldOrder ==
    <<"GSTIN", "Party Name", "Taxable Amount", "IGST", "CGST", "SGST", "Total Amount">>

\* the rule of a field flags the pair
Flagged(p, s, field) ==
    CASE field = "GSTIN"      -> GstinFlagged(p, s)
      [] field = "Party Name" -> NameFlagged(p, s)
      [] OTHER                -> Abs(AmountOf(p, field) - AmountOf(s, field)) > 100

\* C13: the reasons of a pair are exactly the flagged fields, each once, in the
\* order GSTIN, Party Name, Taxable Amount, IGST, CGST, SGST, Total Amount.
C13_AllChecksInOrder ==
    pc # "input" =>
        \A i \in 1..Len(results) :
            LET r == results[i]
            IN  Paired(r) =>
                  [k \in 1..Len(r.mismatchReasons) |-> r.mismatchReasons[k].field]
                    = SelectSeq(FieldOrder,
                                LAMBDA f : Flagged(r.purchaseRecord, r.salesRecord, f))

\* a pair that differs in all seven fields
C13_Witness ==
    /\ pc # "input"
    /\ Len(results) = 1
    /\ Len(results[1].mismatchReasons) = 7

\* a collection has two records with one key
HasDuplicateKey(records) ==
    \E i, j \in 1..Len(records) :
        i < j /\ generateMatchKey(records[i]) = generateMatchKey(records[j])

\* C14: of several records of one collection with one key, the last in input
\* order is the one attached to the key's result and compared; the earlier ones
\* are in no result, and the result list is then shorter than the input.
C14_LastWriteWins ==
    pc # "input" =>
        /\ \A i \in 1..Len(results) :
              LET r == results[i]
              IN  /\ r.purchaseRecord # Null =>
                        r.purchaseRecord = Held(purchaseRecords, r.matchKey)
                  /\ r.salesRecord # Null =>
                        r.salesRecord = Held(salesRecords, r.matchKey)
                  /\ Paired(r) =>
                        r.mismatchReasons
                          = findMismatches(Held(purchaseRecords, r.matchKey),
                                           Held(salesRecords, r.matchKey))
        /\ \A k \in 1..Len(purchaseRecords) :
              purchaseRecords[k]
                  # Held(purchaseRecords, generateMatchKey(purchaseRecords[k]))
              => \A i \in 1..Len(results) : results[i].purchaseRecord # purchaseRecords[k]
        /\ \A k \in 1..Len(salesRecords) :
              salesRecords[k] # Held(salesRecords, generateMatchKey(salesRecords[k]))
              => \A i \in 1..Len(results) : results[i].salesRecord # salesRecords[k]
        /\ (HasDuplicateKey(purchaseRecords) \/ HasDuplicateKey(salesRecords))
              => Len(results) < Len(purchaseRecords) + Len(salesRecords)

\* three purchase records of one key whose last two differ in their total
C14_Witness ==
    /\ pc # "input"
    /\ Len(purchaseRecords) = 3
    /\ Cardinality(KeysOf(purchaseRecords)) = 1
    /\ purchaseRecords[2].totalAmount # purchaseRecords[3].totalAmount
    /\ Len(results) = 1
    /\ results[1].purchaseRecord = purchaseRecords[3]

\* the distinct keys of a collection in the order of their first occurrence
FirstSeenKeys(records) ==
    LET first == SelectSeq([i \in 1..Len(records) |-> i],
                           LAMBDA i : \A j \in 1..(i - 1) :
                               generateMatchKey(records[j]) # generateMatchKey(records[i]))
    IN  [n \in 1..Len(first) |-> generateMatchKey(records[first[n]])]

\* C15: the results are one per purchase key in first-occurrence order, then the
\* missing_in_purchase results of the sales-only keys in first-occurrence order.
C15_EmissionOrder ==
    pc # "input" =>
        LET purchaseKeys == FirstSeenKeys(purchaseRecords)
            salesOnly    == SelectSeq(FirstSeenKeys(salesRecords),
                                      LAMBDA k : k \notin KeysOf(purchaseRecords))
        IN  /\ [i \in 1..Len(results) |-> results[i].matchKey] = purchaseKeys \o salesOnly
            /\ \A i \in 1..Len(results) :
                  (results[i].status = "missing_in_purchase") <=> (i > Len(purchaseKeys))

\* a purchase key repeated after another key, and a sales-only key after them
C15_Witness ==
    /\ pc # "input"
    /\ Len(purchaseRecords) = 3
    /\ generateMatchKey(purchaseRecords[1]) = generateMatchKey(purchaseRecords[3])
    /\ generateMatchKey(purchaseRecords[1]) # generateMatchKey(purchaseRecords[2])
    /\ Len(results) = 3
    /\ results[3].status = "missing_in_purchase"

\* C16: the result at index i (from 0) has id result-i, so ids are distinct
\* within a run and every run starts again at result-0.
C16_SequentialIds ==
    pc # "input" =>
        /\ \A i \in 1..Len(results) : results[i].id = <<"result-", i - 1>>
        /\ \A i, j \in 1..Len(results) : results[i].id = results[j].id => i = j

\* a run with results of both loops
C16_Witness ==
    /\ pc # "input"
    /\ Len(results) = 3
    /\ results[1].status # "missing_in_purchase"
    /\ results[3].status = "missing_in_purchase"
    /\ results[3].id = <<"result-", 2>>

\* C19: on every pair of collections (empty strings, zero and negative amounts
\* included) reconcileDatasets gives a list of well-formed results, no longer
\* than the input, and calculateSummary gives a summary; two empty collections
\* give the empty list, and the empty list gives a summary of zeros.
C19_NoErrorOutcome ==
    /\ pc # "input" =>
          /\ Len(results) <= Len(purchaseRecords) + Len(salesRecords)
          /\ \A i \in 1..Len(results) :
                /\ results[i].status \in Statuses
                /\ results[i].totalDifference \in Int
                /\ results[i].purchaseRecord # Null \/ results[i].salesRecord # Null
          /\ (purchaseRecords = <<>> /\ salesRecords = <<>>) => results = <<>>
    /\ pc = "summarized" =>
          /\ summary # Null
          /\ results = <<>> =>
                summary = [totalRecords           |-> 0,
                           matchedCount           |-> 0,
                           mismatchedCount        |-> 0,
                           missingInPurchaseCount |-> 0,
                           missingInSalesCount    |-> 0,
                           matchPercentage        |-> 0,
                           totalDifferenceAmount  |-> 0]

\* the run on two empty collections, summarized
C19_Witness ==
    /\ pc = "summarized"
    /\ purchaseRecords = <<>>
    /\ salesRecords = <<>>
    /\ results = <<>>

\* C17: matchPercentage is matchedCount / totalRecords * 100 rounded to the
\* nearest integer, halves away from zero (1 matched of 8 gives 13); it is 0
\* when totalRecords is 0, and it is an integer from 0 to 100.
C17_MatchPercentage ==
    pc = "summarized" =>
        LET total   == summary.totalRecords
            matched == summary.matchedCount
        IN  /\ summary.matchPercentage \in 0..100
            /\ total = 0 => summary.matchPercentage = 0
            /\ total > 0 =>
                  summary.matchPercentage = (200 * matched + total) \div (2 * total)

\* the sum of the magnitudes of the numbers of a sequence
RECURSIVE SumOfMagnitudes(_)
SumOfMagnitudes(ds) ==
    IF ds = <<>> THEN 0
    ELSE (IF Head(ds) < 0 THEN -Head(ds) ELSE Head(ds)) + SumOfMagnitudes(Tail(ds))

\* C18: totalDifferenceAmount is the sum over all results of the absolute value
\* of totalDifference, and so is never negative, whatever the mix of positive
\* and negative differences.
C18_TotalDifferenceAmount ==
    pc = "summarized" =>
        /\ summary.totalDifferenceAmount
              = SumOfMagnitudes([i \in 1..Len(results) |-> results[i].totalDifference])
        /\ summary.totalDifferenceAmount >= 0

\* a summarized list with a positive missing_in_sales difference and a negative
\* missing_in_purchase difference
C18_Witness ==
    /\ pc = "summarized"
    /\ \E i, j \in 1..Len(results) :
          /\ results[i].status = "missing_in_sales"
          /\ results[i].totalDifference > 0
          /\ results[j].status = "missing_in_purchase"
          /\ results[j].totalDifference < 0
          /\ summary.totalDifferenceAmount
                >= results[i].totalDifference - results[j].totalDifference

\* the records of a collection
Elements(records) == {records[i] : i \in 1..Len(records)}

\* C21: a run leaves purchaseRecords and salesRecords as they were, and every
\* record a result refers to is one of the input records, field for field.
C21_InputsUnchanged ==
    [][/\ purchaseRecords' = purchaseRecords
       /\ salesRecords' = salesRecords
       /\ \A i \in 1..Len(results') :
             /\ results'[i].purchaseRecord \in Elements(purchaseRecords) \cup {Null}
             /\ results'[i].salesRecord \in Elements(salesRecords) \cup {Null}]_vars

\* a summarized run whose matched pair has an invoice number that the key
\* normalizes (blanks and lower case), still attached as it was read
C21_Witness ==
    /\ pc = "summarized"
    /\ \E i \in 1..Len(results) :
          /\ results[i].status = "matched"
          /\ results[i].purchaseRecord \in Elements(purchaseRecords)
          /\ results[i].purchaseRecord.invoiceNo
                # normalizedInvoiceNo(results[i].purchaseRecord)

\* the normalized invoice number and the normalized date of a record
NormalizedPair(record) == <<normalizedInvoiceNo(record), normalizedDate(record)>>

\* the two components joined by the separator, nothing escaped
Joined(record) == NormalizedPair(record)[1] \o <<"|">> \o NormalizedPair(record)[2]

\* two records with different components whose joined components coincide
Collide(a, b) == NormalizedPair(a) # NormalizedPair(b) /\ Joined(a) = Joined(b)

\* C22: records whose (invoice number, date) pairs differ but whose components
\* joined by '|' coincide are treated as one invoice: across the collections
\* they are paired in the single result of that key, and within a collection
\* the later one overwrites the earlier one.
C22_SeparatorCollision ==
    pc # "input" =>
        /\ \A i \in 1..Len(purchaseRecords) : \A j \in 1..Len(salesRecords) :
              Collide(purchaseRecords[i], salesRecords[j]) =>
                 \E n \in 1..Len(results) :
                    /\ results[n].matchKey = Joined(purchaseRecords[i])
                    /\ Paired(results[n])
                    /\ \A m \in 1..Len(results) :
                          results[m].matchKey = Joined(purchaseRecords[i]) => m = n
        /\ \A i, j \in 1..Len(purchaseRecords) :
              (i < j /\ Collide(purchaseRecords[i], purchaseRecords[j])) =>
                 /\ Cardinality({n \in 1..Len(results) :
                                    results[n].matchKey = Joined(purchaseRecords[j])}) = 1
                 /\ \A n \in 1..Len(results) :
                       results[n].purchaseRecord # purchaseRecords[i]

\* invoice "A|" dated "X" bought and invoice "A" dated "|X" sold, paired as
\* one matched invoice
C22_Witness ==
    /\ pc # "input"
    /\ Len(purchaseRecords) = 1
    /\ Len(salesRecords) = 1
    /\ purchaseRecords[1].invoiceNo = <<"A", "|">>
    /\ salesRecords[1].invoiceNo = <<"A">>
    /\ Len(results) = 1
    /\ results[1].status = "matched"
    /\ results[1].purchaseRecord = purchaseRecords[1]
    /\ results[1].salesRecord = salesRecords[1]

\* the display string and the badge colour stated for each status
StatedLabel ==
    [matched             |-> "Matched",
     mismatched          |-> "Mismatched",
     missing_in_purchase |-> "Missing in Purchase",
     missing_in_sales    |-> "Missing in Sales"]

StatedColor ==
    [matched             |-> "success",
     mismatched          |-> "destructive",
     missing_in_purchase |-> "warning",
     missing_in_sales    |-> "warning"]

\* C25: getStatusLabel and getStatusColor give every one of the four statuses
\* its stated label and colour, for the status of every result of a run, and
\* the colour is never secondary.
C25_StatusLookup ==
    /\ DOMAIN StatedLabel = Statuses
    /\ \A status \in Statuses :
          /\ getStatusLabel(status) \in {StatedLabel[st] : st \in Statuses}
          /\ getStatusColor(status) \in {"success", "destructive", "warning"}
    /\ pc # "input" =>
          \A i \in 1..Len(results) :
             /\ getStatusLabel(results[i].status) = StatedLabel[results[i].status]
             /\ getStatusColor(results[i].status) = StatedColor[results[i].status]

\* a run whose results have a mismatched pair and both kinds of missing record
C25_Witness ==
    /\ pc # "input"
    /\ {"mismatched", "missing_in_purchase", "missing_in_sales"} \subseteq StatusesOf(results)
    /\ getStatusColor("missing_in_purchase") = "warning"

\* C26: when the summary of a run has totalDifferenceAmount 0, every result is
\* matched: there is no mismatched and no missing result.
C26_ZeroMeansNoDiscrepancy ==
    (pc = "summarized" /\ summary.totalDifferenceAmount = 0) =>
        /\ \A i \in 1..Len(results) : results[i].status = "matched"
        /\ summary.mismatchedCount = 0
        /\ summary.missingInPurchaseCount = 0
        /\ summary.missingInSalesCount = 0

\* a reason with the two sides exchanged
MirrorReason(reason) ==
    IF "difference" \in DOMAIN reason
    THEN [field         |-> reason.field,
          purchaseValue |-> reason.salesValue,
          salesValue    |-> reason.purchaseValue,
          difference    |-> -reason.difference]
    ELSE [field         |-> reason.field,
          purchaseValue |-> reason.salesValue,
          salesValue    |-> reason.purchaseValue]

\* the status a result has when the two collections are exchanged
MirrorStatus(status) ==
    CASE status = "missing_in_sales"    -> "missing_in_purchase"
      [] status = "missing_in_purchase" -> "missing_in_sales"
      [] OTHER                          -> status

\* a result with the two sides exchanged, without its id
Mirror(r) ==
    [status          |-> MirrorStatus(r.status),
     purchaseRecord  |-> r.salesRecord,
     salesRecord     |-> r.purchaseRecord,
     matchKey        |-> r.matchKey,
     reasons         |-> {MirrorReason(r.mismatchReasons[n]) :
                             n \in 1..Len(r.mismatchReasons)},
     totalDifference |-> -r.totalDifference]

\* a result without its id, its reasons as a set
Content(r) ==
    [status          |-> r.status,
     purchaseRecord  |-> r.purchaseRecord,
     salesRecord     |-> r.salesRecord,
     matchKey        |-> r.matchKey,
     reasons         |-> {r.mismatchReasons[n] : n \in 1..Len(r.mismatchReasons)},
     totalDifference |-> r.totalDifference]

\* C27: the run on the exchanged collections has, for every key, the result
\* of the run with the roles exchanged: the statuses of the missing sides
\* swapped, the same flagged fields with their values swapped and their
\* differences negated, and totalDifference negated; only order and ids differ.
C27_SideSwapSymmetry ==
    pc # "input" =>
        LET swapped == reconcileDatasets(salesRecords, purchaseRecords)
        IN  /\ Len(swapped) = Len(results)
            /\ {Content(swapped[i]) : i \in 1..Len(swapped)}
                  = {Mirror(results[i]) : i \in 1..Len(results)}
            /\ \A i, j \in 1..Len(swapped) :
                  swapped[i].matchKey = swapped[j].matchKey => i = j

\* a run with a pair mismatched on its total, a record missing in sales and a
\* record missing in purchase
C27_Witness ==
    /\ pc # "input"
    /\ Len(results) = 3
    /\ results[1].status = "mismatched"
    /\ results[1].totalDifference # 0
    /\ results[2].status = "missing_in_sales"
    /\ results[2].totalDifference # 0
    /\ results[3].status = "missing_in_purchase"

(***************************************************************************)
(* Ingestion                                                               *)
(***************************************************************************)
\* the number a row holds under a header, 0 when it holds none
SourceNumber(row, header) ==
    IF header \in DOMAIN row THEN parseNumber(row[header]) ELSE 0

\* the records the page holds
LoadedRecords ==
    {purchaseRecords[i] : i \in 1..Len(purchaseRecords)}
        \cup {salesRecords[i] : i \in 1..Len(salesRecords)}

\* C24: a loaded record whose row has no total or a zero total and a taxable
\* amount has totalAmount = taxableAmount + igst + cgst + sgst; every other record
\* has the parsed total of its row; so totalAmount is 0 only without a taxable amount
C24_TotalSynthesis ==
    \A record \in LoadedRecords :
        LET row == record.rawData
            total == SourceNumber(row, HeaderTotal)
            taxable == SourceNumber(row, HeaderAmount)
        IN  /\ record.taxableAmount = taxable
            /\ (total = 0 /\ taxable # 0) =>
                   record.totalAmount = taxable + record.igst + record.cgst + record.sgst
            /\ ~(total = 0 /\ taxable # 0) => record.totalAmount = total
            /\ record.totalAmount = 0 => record.taxableAmount = 0

(***************************************************************************)
(* The page                                                                *)
(***************************************************************************)
\* the elements of a list at the positions kept, in the order of the list
Pick(list, kept) ==
    LET positions == SelectSeq([i \in 1..Len(list) |-> i], LAMBDA i : i \in kept)
    IN  [k \in 1..Len(positions) |-> list[positions[k]]]

\* sub is what is left of list when the elements at some positions are dropped
SubList(sub, list) == \E kept \in SUBSET (1..Len(list)) : sub = Pick(list, kept)

\* C23: after every step of the page filteredResults is an order-preserving
\* sub-list of results made of the result objects themselves, and a run or a
\* clear-filters step leaves filteredResults equal to results
C23_FilterKeepsContent ==
    [][/\ SubList(filteredResults', results')
       /\ (runReconciliation \/ clearFilters) => filteredResults' = results']_vars

\* a filter has kept the second of two results and dropped the first
C23_Witness ==
    /\ Len(results) = 2
    /\ filteredResults = <<results[2]>>

\* the values useState gives the page
Initial ==
    /\ purchaseRecords = <<>>
    /\ salesRecords = <<>>
    /\ results = <<>>
    /\ filteredResults = <<>>
    /\ summary = Null
    /\ activeTab = "upload"

\* a step that empties results: only resetAll does
ResetStep == Len(results) > 0 /\ results' = <<>>

\* a step that installs other results: only runReconciliation does
RunStep == results' # <<>> /\ results' # results

\* C28: the page has a summary exactly when it has results, and the summary is
\* calculateSummary of the results; results are installed only while both
\* datasets are non-empty; a reset puts the page back to its initial values
C28_PageConsistency ==
    /\ [](/\ summary # Null <=> Len(results) > 0
          /\ summary # Null => summary = calculateSummary(results))
    /\ [][/\ RunStep => Len(purchaseRecords) > 0 /\ Len(salesRecords) > 0
          /\ ResetStep => Initial']_vars

\* a summary of two results is still shown, under a filter, after a dataset was cleared
C28_Witness ==
    /\ summary # Null
    /\ summary.totalRecords = 2
    /\ Len(filteredResults) = 1
    /\ purchaseRecords = <<>>
    /\ salesRecords # <<>>

\* C29: the results tab is active only while there are results; it becomes
\* active by a run, which needs both datasets non-empty and yields at least one
\* result, or by selecting it while there are results; a reset makes the upload
\* tab active
C29_ResultsTabGating ==
    /\ [](/\ activeTab = "results" => Len(results) > 0
          /\ canReconcile => Len(reconcileDatasets(purchaseRecords, salesRecords)) > 0)
    /\ [][/\ (activeTab # "results" /\ activeTab' = "results") =>
                \/ Len(results) > 0 /\ UNCHANGED results
                \/ /\ canReconcile
                   /\ results' = reconcileDatasets(purchaseRecords, salesRecords)
                   /\ Len(results') > 0
          /\ ResetStep => activeTab' = "upload"]_vars

\* the results tab was selected again after a dataset had been cleared
C29_Witness ==
    /\ activeTab = "results"
    /\ purchaseRecords = <<>>
    /\ Len(results) > 0

PurchaseChanged == purchaseRecords' # purchaseRecords \/ purchaseInfo' # purchaseInfo

SalesChanged == salesRecords' # salesRecords \/ salesInfo' # salesInfo

\* a step from a page with results to the initial page: a reset
BackToInitial == Len(results) > 0 /\ Initial'

\* C30: a step that changes a dataset and is not a reset leaves results,
\* filteredResults, summary, activeTab and the other dataset as they were
C30_DatasetChangeFrame ==
    [][((PurchaseChanged \/ SalesChanged) /\ ~BackToInitial) =>
          /\ UNCHANGED <<results, filteredResults, summary, activeTab>>
          /\ PurchaseChanged => UNCHANGED <<salesRecords, salesInfo>>
          /\ SalesChanged => UNCHANGED <<purchaseRecords, purchaseInfo>>]_vars

\* both datasets are loaded and the results shown are not those of a run on them
C30_Witness ==
    /\ canReconcile
    /\ Len(results) > 0
    /\ results # reconcileDatasets(purchaseRecords, salesRecords)
    /\ summary # calculateSummary(reconcileDatasets(purchaseRecords, salesRecords))

====
